---- MODULE Spec2Model ----
(***************************************************************************)
(* Model of the search tool's execution core:                              *)
(*   - BaseSearchModel.search_with_retry (models_impl.py), the two-tier    *)
(*     retry controller, specification RetrySpec;                          *)
(*   - ParallelModelExecutor.execute_models / _execute_single_model        *)
(*     (parallel_executor.py), the concurrent dispatcher, specification    *)
(*     Spec;                                                               *)
(*   - BaseSearchModel._process_streaming_response, the stream classifier, *)
(*     specification StreamSpec;                                           *)
(*   - the console writes and the two locks of a batch, specification      *)
(*     ConsoleSpec;                                                        *)
(*   - ReportAggregator.aggregate_results / generate_report                *)
(*     (report_aggregator.py), specification AggSpec;                      *)
(*   - search_with_retry run by two worker threads at once, with the       *)
(*     openai module globals they share, specification CallSpec;           *)
(*   - successive execute_models calls on one executor and the list        *)
(*     objects they hand out, specification SessionSpec.                   *)
(* Texts are sequences of tokens.  The token "think" stands for one of the *)
(* indicator phrases of _extract_final_answer ("Let me think", ...), the   *)
(* token "ws" for white space, "a" for ordinary answer text.               *)
(***************************************************************************)
EXTENDS Integers, Sequences, FiniteSets, TLC

VARIABLES
    streaming,          \* search_with_retry / execute_models argument
    suppress_thinking,  \* search_with_retry / execute_models argument
    tier,               \* which loop of search_with_retry runs: "primary", "backup", "returned"
    attempt,            \* the loop variable `attempt` of the running loop
    calls,              \* log of the network requests issued so far by search_with_retry
    sleeps,             \* log of the time.sleep calls made so far by search_with_retry
    ret,                \* how search_with_retry ended: a return value or a raised exception
    model_keys,         \* execute_models argument: the batch, a sequence of unique keys
    task,               \* per key: the state of its future / of _execute_single_model
    pending,            \* as_completed: the futures not yet yielded
    notified,           \* as_completed: waiter.finished_futures, in completion order
    batch,              \* as_completed: the finished futures being yielded
    results,            \* self.results
    pc,                 \* position of execute_models
    outcome,            \* how execute_models ended: "running", "returned", "raised"
    finish_order,       \* the keys whose futures completed since execute_models last looked
                        \* (at submit, at the start of as_completed), in that order
    stream,             \* _process_streaming_response: the part of the response not yet received
    cls,                \* _process_streaming_response: msg, thinking_content, final_content, in_thinking
    spc,                \* position of _process_streaming_response: "idle", "reading", "returned"
    sret,               \* the text _process_streaming_response returned
    marker_split,       \* whether a chunk boundary has fallen inside a marker
    fallback,           \* the completion object the except branch fell back on, if reading failed
    thr,                \* per thread: the console / lock site it is at, and whether it is inside it
    output_lock,        \* self.output_lock: the thread holding it, or Free
    lock,               \* self.lock: the thread holding it, or Free
    collected,          \* the worker threads whose future as_completed has yielded
    agg_results,        \* aggregate_results argument: the result list
    clock,              \* the wall clock read by time.strftime
    reports,            \* the AggregatedReports returned so far, by successive calls
    rendered,           \* what generate_report(report, "structured") made of each report
    api_base,           \* openai.api_base / openai.api_key, the module globals: the target set last
    call,               \* per worker thread: the state of its call of search_with_retry
    heap,               \* the list objects made for self.results so far, with their contents
    self_results,       \* the list object self.results refers to
    returned,           \* per execute_models call that returned: the list object it handed out
    sess                \* the running execute_models call of the executor, if any

retryVars == <<tier, attempt, calls, sleeps, ret>>
dispVars == <<model_keys, task, pending, notified, batch, results, pc, outcome,
             finish_order>>
streamVars == <<stream, cls, spc, sret, marker_split, fallback>>
consoleVars == <<thr, output_lock, lock, collected>>
aggVars == <<agg_results, clock, reports, rendered>>
callVars == <<api_base, call>>
sessVars == <<heap, self_results, returned, sess>>
vars == <<streaming, suppress_thinking, tier, attempt, calls, sleeps, ret,
          model_keys, task, pending, notified, batch, results, pc, outcome,
          finish_order,
          stream, cls, spc, sret, marker_split, fallback,
          thr, output_lock, lock, collected,
          agg_results, clock, reports, rendered,
          api_base, call,
          heap, self_results, returned, sess>>

----------------------------------------------------------------------------
(* Values *)

\* Python's None, as a text value distinct from every token sequence of the alphabet.
None == <<"None">>

\* `if msg:` / `if response:` -- None and the empty string are falsy.
Truthy(m) == m # None /\ m # <<>>

\* The contents a non-streamed API response can carry; the last one holds a
\* thinking span, "<think>a</think>b".
Contents ==
    {None, <<>>, <<"a">>, <<"think", "a">>, <<"think">>,
     <<"<", "t", ">", "a", "<", "/", "t", ">", "b">>}

NoErr == [type |-> "none", msg |-> "none"]

\* Exceptions openai.ChatCompletion.create can raise (all subclasses of Exception).
ApiErrors ==
    { [type |-> "RateLimitError", msg |-> "rate limit reached"],
      [type |-> "APIError", msg |-> "server overloaded"],
      [type |-> "Timeout", msg |-> "request timed out"],
      [type |-> "AuthenticationError", msg |-> "invalid api key"] }

ErrNoChoices == [type |-> "ValueError", msg |-> "No choices returned from API."]
ErrNoValid == [type |-> "ValueError", msg |-> "No valid response received from API"]

\* 'RateLimitError' in error_type, or the message says the load is saturated
\* (the Chinese phrase, here "load saturated") or contains 'overloaded'.
IsRateLimited(err) ==
    \/ err.type = "RateLimitError"
    \/ err.msg \in {"server overloaded", "load saturated"}

\* _handle_api_error: (should_retry, message).  search_with_retry never calls it.
HandleApiError(err, att, max_retries) ==
    IF IsRateLimited(err)
    THEN IF att = 0 THEN <<TRUE, "switch to backup API">>
         ELSE <<FALSE, "all providers overloaded">>
    ELSE IF att < max_retries THEN <<TRUE, "ordinary error, retry">>
         ELSE <<FALSE, "max retries reached">>

----------------------------------------------------------------------------
(* _process_streaming_response *)

\* The markers "<think>" and "</think>", one symbol per character, the tag name
\* shortened to "t".  As in the source, both begin with "<" and end with ">",
\* neither occurs inside the other, and neither overlaps itself.
ThinkOpen == <<"<", "t", ">">>
ThinkClose == <<"<", "/", "t", ">">>

\* pat occurs in text at (1-based) position i.
IsAt(text, pat, i) ==
    /\ i >= 1
    /\ i + Len(pat) - 1 <= Len(text)
    /\ SubSeq(text, i, i + Len(pat) - 1) = pat

\* text.find(pat): the position of the first occurrence, 0 (Python: -1) when none.
Find(text, pat) ==
    LET hits == { i \in 1..Len(text) : IsAt(text, pat, i) }
    IN  IF hits = {} THEN 0 ELSE CHOOSE i \in hits : \A j \in hits : i <= j

\* The state at entry of _process_streaming_response.
StreamStart ==
    [msg |-> <<>>, thinking_content |-> <<>>, final_content |-> <<>>, in_thinking |-> FALSE]

\* Mutant of KeepSegment: text inside a thinking region is kept even when
\* thinking is suppressed.
KeepSegment_Always(in_thinking, suppress) == TRUE

\* `if in_thinking and suppress_thinking: pass  else: final_content += segment`
KeepSegment(in_thinking, suppress) == ~(in_thinking /\ suppress)

\* The `while text:` loop over one chunk's text.
RECURSIVE Scan(_, _, _)
Scan(st, text, suppress) ==
    IF text = <<>> THEN st
    ELSE LET start_idx == Find(text, ThinkOpen)
             end_idx == Find(text, ThinkClose)
             cut_idx == IF start_idx = 0 /\ end_idx = 0 THEN Len(text) + 1
                        ELSE IF start_idx = 0 THEN end_idx
                        ELSE IF end_idx = 0 THEN start_idx
                        ELSE IF start_idx < end_idx THEN start_idx ELSE end_idx
             segment == SubSeq(text, 1, cut_idx - 1)
             rest == SubSeq(text, cut_idx, Len(text))
             st1 == IF segment # <<>> /\ KeepSegment(st.in_thinking, suppress)
                    THEN [st EXCEPT !.final_content = @ \o segment]
                    ELSE st
         IN  IF IsAt(rest, ThinkOpen, 1)
             THEN Scan([st1 EXCEPT !.in_thinking = TRUE,
                                   !.thinking_content = @ \o ThinkOpen],
                       SubSeq(rest, Len(ThinkOpen) + 1, Len(rest)), suppress)
             ELSE IF IsAt(rest, ThinkClose, 1)
             THEN Scan([st1 EXCEPT !.in_thinking = FALSE,
                                   !.thinking_content = @ \o ThinkClose],
                       SubSeq(rest, Len(ThinkClose) + 1, Len(rest)), suppress)
             ELSE Scan(st1, rest, suppress)

\* The loop body for one chunk whose delta content is raw (`if raw:`).
ProcessChunk(st, raw, suppress) ==
    IF raw = <<>> THEN st
    ELSE Scan([st EXCEPT !.msg = @ \o raw], raw, suppress)

\* Mutant of StreamReturn: the raw text is returned whatever suppress_thinking says.
StreamReturn_Raw(st, suppress) == st.msg

\* `if suppress_thinking and final_content: return final_content` / `return msg`
StreamReturn(st, suppress) ==
    IF suppress /\ st.final_content # <<>> THEN st.final_content ELSE st.msg

\* Reading has not failed.
NoFallback == [shape |-> "unused", content |-> None]

\* The completion objects the except branch can meet: the chunk iterator itself,
\* which has neither `choices` nor `content`, an object with `choices`, an object
\* with `content`.
Completions ==
    {[shape |-> "iterator", content |-> None]}
    \cup { [shape |-> sh, content |-> c] : sh \in {"choices", "content"},
                                          c \in {<<>>, <<"b">>} }

\* What the fallback extracts from the completion object; None when it has
\* nothing to read from.
Extracted(completion) ==
    IF completion.shape = "iterator" THEN None ELSE completion.content

\* Mutant of FallBack: the text of the chunks received before the failure is
\* dropped.
FallBack_FromScratch(st, completion) ==
    [StreamStart EXCEPT !.msg = IF Extracted(completion) = None THEN <<>>
                                ELSE Extracted(completion)]

\* The except branch of the chunk loop: msg is replaced by what the completion
\* object holds, if it holds anything to read.
FallBack(st, completion) ==
    IF Extracted(completion) = None THEN st
    ELSE [st EXCEPT !.msg = Extracted(completion)]

\* _process_streaming_response over a whole list of chunks.
RECURSIVE ProcessStream(_, _, _)
ProcessStream(st, chunks, suppress) ==
    IF chunks = <<>> THEN st
    ELSE ProcessStream(ProcessChunk(st, Head(chunks), suppress), Tail(chunks), suppress)

ProcessStreamingResponse(chunks, suppress) ==
    StreamReturn(ProcessStream(StreamStart, chunks, suppress), suppress)

\* The texts a streamed response can carry (delivered as one chunk): nothing,
\* plain text, a thinking span followed by text, a thinking span alone.
StreamContents ==
    { <<>>, <<"a">>,
      ThinkOpen \o <<"a">> \o ThinkClose \o <<"b">>,
      ThinkOpen \o <<"a">> \o ThinkClose }

\* What _process_streaming_response returns for each streamed text, by
\* suppress_thinking.
StreamedText ==
    [c \in StreamContents |->
        [suppress \in BOOLEAN |-> ProcessStreamingResponse(<<c>>, suppress)]]

\* What one network request can come back with.  Streaming: a chunk stream
\* carrying some text; non-streaming: a completion with no choice, or with one
\* choice carrying some content.
Responses(strm) ==
    { [kind |-> "raise", err |-> e, content |-> None] : e \in ApiErrors }
    \cup
    ( IF strm
      THEN { [kind |-> "stream", err |-> NoErr, content |-> c] : c \in StreamContents }
      ELSE { [kind |-> "nochoices", err |-> NoErr, content |-> None] }
           \cup { [kind |-> "message", err |-> NoErr, content |-> c] : c \in Contents } )

----------------------------------------------------------------------------
(* _extract_final_answer *)

RECURSIVE RemoveToken(_, _)
RemoveToken(s, t) ==
    IF s = <<>> THEN <<>>
    ELSE IF Head(s) = t THEN RemoveToken(Tail(s), t)
    ELSE <<Head(s)>> \o RemoveToken(Tail(s), t)

RECURSIVE LStrip(_)
LStrip(s) == IF s # <<>> /\ Head(s) = "ws" THEN LStrip(Tail(s)) ELSE s

RECURSIVE RStrip(_)
RStrip(s) ==
    IF s # <<>> /\ s[Len(s)] = "ws" THEN RStrip(SubSeq(s, 1, Len(s) - 1)) ELSE s

\* Every pattern is an indicator phrase followed by a non-greedy `.*?`, which
\* matches the empty string: re.sub removes the phrases and nothing else.  Then
\* strip(); an empty result falls back to the full response.
ExtractFinalAnswer(full_response) ==
    LET result == RStrip(LStrip(RemoveToken(full_response, "think")))
    IN  IF result # <<>> THEN result ELSE full_response

----------------------------------------------------------------------------
(* search_with_retry *)

\* `for attempt in range(3)` of the primary loop and of the backup loop.
PrimaryRange == 3
BackupRange == 3

Range(t) == IF t = "primary" THEN PrimaryRange ELSE BackupRange

\* Mutant of SetupApiConfig: the two targets swapped.
SetupApiConfig_Swapped(use_primary) == IF use_primary THEN "backup" ELSE "primary"

\* _setup_api_config: the API target openai.api_base / api_key point at afterwards.
SetupApiConfig(use_primary) == IF use_primary THEN "primary" ELSE "backup"

RECURSIVE Pow2(_)
Pow2(n) == IF n = 0 THEN 1 ELSE 2 * Pow2(n - 1)

\* Mutant of Backoff: the exponent is one too large (8, 16, ...).
Backoff_OneMore(att) == Pow2(att + 3)

\* time.sleep(2 ** (attempt + 2))
Backoff(att) == Pow2(att + 2)

Running == [kind |-> "running", msg |-> None, completion |-> 0]

\* `return None, None`
ReturnNone == [kind |-> "return", msg |-> None, completion |-> 0]

\* Mutant of AttemptResult: the test of completion.choices is missing and a
\* response without choices passes as an answer.
AttemptResult_NoChoicesTest(strm, suppress, resp, callId) ==
    IF resp.kind = "raise"
    THEN [ok |-> FALSE, msg |-> None, completion |-> 0, err |-> resp.err]
    ELSE LET msg == IF strm THEN StreamedText[resp.content][suppress]
                    ELSE IF resp.kind = "nochoices" THEN <<"a">>
                    ELSE IF suppress /\ Truthy(resp.content)
                         THEN ExtractFinalAnswer(resp.content)
                         ELSE resp.content
         IN  IF Truthy(msg)
             THEN [ok |-> TRUE, msg |-> msg, completion |-> callId, err |-> NoErr]
             ELSE [ok |-> FALSE, msg |-> None, completion |-> 0, err |-> ErrNoValid]

\* The try body from the request to `if msg: return ... else: raise ValueError`.
\* callId stands for the completion object of this request.
AttemptResult(strm, suppress, resp, callId) ==
    IF resp.kind = "raise"
    THEN [ok |-> FALSE, msg |-> None, completion |-> 0, err |-> resp.err]
    ELSE IF ~strm /\ resp.kind = "nochoices"
    THEN [ok |-> FALSE, msg |-> None, completion |-> 0, err |-> ErrNoChoices]
    ELSE LET msg == IF strm THEN StreamedText[resp.content][suppress]
                    ELSE IF suppress /\ Truthy(resp.content)
                         THEN ExtractFinalAnswer(resp.content)
                         ELSE resp.content
         IN  IF Truthy(msg)
             THEN [ok |-> TRUE, msg |-> msg, completion |-> callId, err |-> NoErr]
             ELSE [ok |-> FALSE, msg |-> None, completion |-> 0, err |-> ErrNoValid]

\* Control reaches the top of loop t: its first iteration, or the code after it
\* when the range is empty.
RECURSIVE LoopEntry(_)
LoopEntry(t) ==
    IF t = "returned" THEN [tier |-> "returned", attempt |-> 0, ret |-> ReturnNone]
    ELSE IF Range(t) > 0 THEN [tier |-> t, attempt |-> 0, ret |-> Running]
    ELSE LoopEntry(IF t = "primary" THEN "backup" ELSE "returned")

\* Mutant of AfterLoop: the exhausted controller raises instead of returning.
AfterLoop_Raises(t) ==
    IF t = "primary" THEN LoopEntry("backup")
    ELSE [tier |-> "returned", attempt |-> 0,
          ret |-> [kind |-> "raise", msg |-> None, completion |-> 0]]

\* The code after loop t: the backup loop after the primary one, `return None, None`
\* after the backup one.
AfterLoop(t) == LoopEntry(IF t = "primary" THEN "backup" ELSE "returned")

\* Mutant of AfterAttempt: a tier is given a fourth attempt.
AfterAttempt_FourPerTier(t, att, r) ==
    IF r.ok
    THEN [tier |-> "returned", attempt |-> att, sleep |-> 0,
          ret |-> [kind |-> "return", msg |-> r.msg, completion |-> r.completion]]
    ELSE IF att < 3
    THEN [tier |-> t, attempt |-> att + 1, sleep |-> Backoff(att), ret |-> Running]
    ELSE [sleep |-> 0] @@ AfterLoop(t)

\* Mutant of AfterAttempt: a ValueError (no choices, no valid response) ends the
\* tier at once.
AfterAttempt_FatalEndsTier(t, att, r) ==
    IF r.ok
    THEN [tier |-> "returned", attempt |-> att, sleep |-> 0,
          ret |-> [kind |-> "return", msg |-> r.msg, completion |-> r.completion]]
    ELSE IF att < 2 /\ r.err.type # "ValueError"
    THEN [tier |-> t, attempt |-> att + 1, sleep |-> Backoff(att), ret |-> Running]
    ELSE [sleep |-> 0] @@ AfterLoop(t)

\* Mutant of AfterAttempt: a success on attempt 1 or 2 does not return; the loop
\* sleeps and goes on.
AfterAttempt_GoesOn(t, att, r) ==
    IF r.ok /\ att >= 2
    THEN [tier |-> "returned", attempt |-> att, sleep |-> 0,
          ret |-> [kind |-> "return", msg |-> r.msg, completion |-> r.completion]]
    ELSE IF att < 2
    THEN [tier |-> t, attempt |-> att + 1, sleep |-> Backoff(att), ret |-> Running]
    ELSE [sleep |-> 0] @@ AfterLoop(t)

\* Mutant of AfterAttempt: the except branch sleeps after every failure, the third
\* of a tier included.
AfterAttempt_SleepsAfterLast(t, att, r) ==
    IF r.ok
    THEN [tier |-> "returned", attempt |-> att, sleep |-> 0,
          ret |-> [kind |-> "return", msg |-> r.msg, completion |-> r.completion]]
    ELSE IF att < 2
    THEN [tier |-> t, attempt |-> att + 1, sleep |-> Backoff(att), ret |-> Running]
    ELSE [sleep |-> Backoff(att)] @@ AfterLoop(t)

\* The end of one iteration of loop t: `return msg, completion` on success; in the
\* except branch, sleep and `continue` while attempt < 2, `break` otherwise.
AfterAttempt(t, att, r) ==
    IF r.ok
    THEN [tier |-> "returned", attempt |-> att, sleep |-> 0,
          ret |-> [kind |-> "return", msg |-> r.msg, completion |-> r.completion]]
    ELSE IF att < 2
    THEN IF att + 1 < Range(t)
         THEN [tier |-> t, attempt |-> att + 1, sleep |-> Backoff(att), ret |-> Running]
         ELSE [sleep |-> Backoff(att)] @@ AfterLoop(t)
    ELSE [sleep |-> 0] @@ AfterLoop(t)

\* One iteration of loop t with the response resp of its request.
Iteration(t, resp) ==
    LET callId == Len(calls) + 1
        r == AttemptResult(streaming, suppress_thinking, resp, callId)
        step == AfterAttempt(t, attempt, r)
    IN  /\ calls' = Append(calls, [tier |-> t,
                                   target |-> SetupApiConfig(t = "primary"),
                                   n |-> attempt + 1,
                                   response |-> resp.kind,
                                   ok |-> r.ok,
                                   err |-> r.err,
                                   msg |-> r.msg])
        /\ sleeps' = IF step.sleep > 0
                     THEN Append(sleeps, [after |-> callId, secs |-> step.sleep])
                     ELSE sleeps
        /\ tier' = step.tier
        /\ attempt' = step.attempt
        /\ ret' = step.ret

PrimaryAttempt ==
    /\ tier = "primary"
    /\ \E resp \in Responses(streaming) : Iteration("primary", resp)
    /\ UNCHANGED <<streaming, suppress_thinking>>
    /\ UNCHANGED dispVars
    /\ UNCHANGED streamVars
    /\ UNCHANGED aggVars
    /\ UNCHANGED consoleVars
    /\ UNCHANGED callVars
    /\ UNCHANGED sessVars

BackupAttempt ==
    /\ tier = "backup"
    /\ \E resp \in Responses(streaming) : Iteration("backup", resp)
    /\ UNCHANGED <<streaming, suppress_thinking>>
    /\ UNCHANGED dispVars
    /\ UNCHANGED streamVars
    /\ UNCHANGED aggVars
    /\ UNCHANGED consoleVars
    /\ UNCHANGED callVars
    /\ UNCHANGED sessVars

DispIdle ==
    /\ model_keys = <<>>
    /\ task = <<>>
    /\ pending = {}
    /\ notified = <<>>
    /\ batch = <<>>
    /\ results = <<>>
    /\ pc = "idle"
    /\ outcome = "running"
    /\ finish_order = <<>>

StreamIdle ==
    /\ stream = <<>>
    /\ cls = StreamStart
    /\ spc = "idle"
    /\ sret = None
    /\ marker_split = FALSE
    /\ fallback = NoFallback

\* threading.Lock() as constructed: held by no thread.
Free == -1

ConsoleIdle ==
    /\ thr = <<>>
    /\ output_lock = Free
    /\ lock = Free
    /\ collected = {}

AggIdle ==
    /\ agg_results = <<>>
    /\ clock = 0
    /\ reports = <<>>
    /\ rendered = <<>>

\* openai.api_base as the library ships it, before any _setup_api_config.
DefaultTarget == "default"

CallIdle ==
    /\ api_base = DefaultTarget
    /\ call = <<>>

\* No execute_models call is running.
NoCall == [pc |-> "idle", keys |-> {}, left |-> {}]

SessIdle ==
    /\ heap = <<>>
    /\ self_results = 0
    /\ returned = <<>>
    /\ sess = NoCall

RetryInit ==
    /\ streaming \in BOOLEAN
    /\ suppress_thinking \in BOOLEAN
    /\ tier = LoopEntry("primary").tier
    /\ attempt = LoopEntry("primary").attempt
    /\ ret = LoopEntry("primary").ret
    /\ calls = <<>>
    /\ sleeps = <<>>
    /\ DispIdle
    /\ StreamIdle
    /\ ConsoleIdle
    /\ AggIdle
    /\ CallIdle
    /\ SessIdle

RetryNext == PrimaryAttempt \/ BackupAttempt

RetrySpec == RetryInit /\ [][RetryNext]_vars

\* Every network call returns or raises and every sleep ends: a loop iteration
\* that has started is completed.
RetryLiveSpec == RetryInit /\ [][RetryNext]_vars /\ WF_vars(RetryNext)

----------------------------------------------------------------------------
(* ParallelModelExecutor *)

\* Keys 1..NKeys are registered; key 0 is unknown to the registry.
NKeys == 2

\* ThreadPoolExecutor(max_workers=self.max_workers)
MaxWorkers == 2

Registry == 1..NKeys
AllKeys == 0..NKeys

RECURSIVE Ascending(_)
Ascending(S) ==
    IF S = {} THEN <<>>
    ELSE LET m == CHOOSE x \in S : \A y \in S : x <= y
         IN  <<m>> \o Ascending(S \ {m})

\* The batches: every non-empty set of unique keys, in ascending order.
Batches == { Ascending(S) : S \in (SUBSET AllKeys) \ {{}} }

RECURSIVE Perms(_)
Perms(S) ==
    IF S = {} THEN {<<>>}
    ELSE UNION { { <<x>> \o p : p \in Perms(S \ {x}) } : x \in S }

BatchKeys == { model_keys[i] : i \in 1..Len(model_keys) }

NoMessage == "None"
MsgEmptyResponse == "empty response"
MsgUnknownModel == "model does not exist"
MsgTimeout == "execution timed out"

NoResult == [model_key |-> 0, status |-> "none", response |-> <<>>, error_message |-> NoMessage]

\* Mutant of GetModelClass: the lookup finds a class for every key.
GetModelClass_FindsAll(k) == "class"

\* Mutant of GetModelClass: the lookup finds nothing for any key.
GetModelClass_FindsNothing(k) == "None"

\* registry.get_model_class(model_key)
GetModelClass(k) == IF k \in Registry THEN "class" ELSE "None"

\* Mutant of ExceptResult: the exception's message is not recorded.
ExceptResult_NoMessage(k, message) ==
    [model_key |-> k, status |-> "error", response |-> <<>>, error_message |-> NoMessage]

\* The except branch of _execute_single_model.
ExceptResult(k, message) ==
    [model_key |-> k, status |-> "error", response |-> <<>>, error_message |-> message]

\* Mutant of RaisedAfterSearch: the `if response:` test is missing.
RaisedAfterSearch_NoEmptyTest(r) ==
    IF r.kind = "raise" THEN "search_with_retry raised" ELSE "none"

\* The exception raised inside the try body of _execute_single_model once
\* search_with_retry has ended with r: "none" when the body returns a result.
RaisedAfterSearch(r) ==
    IF r.kind = "raise" THEN "search_with_retry raised"
    ELSE IF Truthy(r.msg) THEN "none"
    ELSE MsgEmptyResponse

\* _execute_single_model from the return of search_with_retry on.
SingleModelResult(k, r) ==
    IF RaisedAfterSearch(r) = "none"
    THEN [model_key |-> k, status |-> "success", response |-> r.msg,
          error_message |-> NoMessage]
    ELSE ExceptResult(k, RaisedAfterSearch(r))

\* A future: not done, or done holding a result or an exception.
NoFuture == [done |-> FALSE, raised |-> "none", result |-> NoResult]
FutureOf(result) == [done |-> TRUE, raised |-> "none", result |-> result]

\* The body of the collection loop for the yielded future of key k: what it
\* appends to self.results.  _execute_single_model catches every Exception, so
\* its future never holds one.
CollectedFrom(k, fut) ==
    IF fut.raised = "none"
    THEN IF fut.result.status # "none" THEN <<fut.result>> ELSE <<>>
    ELSE IF fut.raised = "TimeoutError"
    THEN <<[model_key |-> k, status |-> "timeout", response |-> <<>>,
            error_message |-> MsgTimeout]>>
    ELSE <<[model_key |-> k, status |-> "error", response |-> <<>>,
            error_message |-> fut.raised]>>

NewTask ==
    [pc |-> "new", tier |-> "none", attempt |-> 0, response |-> None,
     exc |-> "none", fut |-> NoFuture]

\* Mutant of Active: a worker thread is not given back to the pool when its task
\* ends.
Active_NeverFreed(k) == task[k].pc \in {"lookup", "retry", "done"}

\* Mutant of Active: a worker is counted as busy only once its task has reached
\* search_with_retry.
Active_OnlyRetry(k) == task[k].pc = "retry"

\* The work item of key k occupies a worker thread.
Active(k) == task[k].pc \in {"lookup", "retry"}

\* Mutant of Complete: a waiter puts a newly finished future in front of those it
\* already holds.
Complete_Prepends(k, result, response, exc) ==
    /\ task' = [task EXCEPT ![k] = [pc |-> "done", tier |-> "returned",
                                     attempt |-> 0,
                                     response |-> response, exc |-> exc,
                                     fut |-> FutureOf(result)]]
    /\ notified' = IF pc = "collect" /\ k \in pending
                   THEN <<k>> \o notified ELSE notified
    /\ finish_order' = IF pc = "submitted" THEN Append(finish_order, k) ELSE finish_order

\* The future of key k completes with result: waiters installed by as_completed
\* are notified.
Complete(k, result, response, exc) ==
    /\ task' = [task EXCEPT ![k] = [pc |-> "done", tier |-> "returned",
                                     attempt |-> 0,
                                     response |-> response, exc |-> exc,
                                     fut |-> FutureOf(result)]]
    /\ notified' = IF pc = "collect" /\ k \in pending
                   THEN Append(notified, k) ELSE notified
    /\ finish_order' = IF pc = "submitted" THEN Append(finish_order, k) ELSE finish_order

\* execute_models up to the end of the submit comprehension.
Submit ==
    /\ pc = "start"
    /\ results' = <<>>
    /\ task' = [k \in BatchKeys |-> [NewTask EXCEPT !.pc = "queued"]]
    /\ pc' = "submitted"
    /\ UNCHANGED <<streaming, suppress_thinking, model_keys, pending, notified, batch, outcome>>
    /\ UNCHANGED finish_order
    /\ UNCHANGED retryVars
    /\ UNCHANGED streamVars
    /\ UNCHANGED aggVars
    /\ UNCHANGED consoleVars
    /\ UNCHANGED callVars
    /\ UNCHANGED sessVars

\* A free worker thread takes the oldest queued work item.
WorkerStart(k) ==
    /\ pc \in {"submitted", "collect", "shutdown"}
    /\ task[k].pc = "queued"
    /\ \A j \in BatchKeys : task[j].pc = "queued" => k <= j
    /\ Cardinality({ j \in BatchKeys : Active(j) }) < MaxWorkers
    /\ task' = [task EXCEPT ![k].pc = "lookup"]
    /\ UNCHANGED <<streaming, suppress_thinking, model_keys, pending, notified, batch,
                   results, pc, outcome>>
    /\ UNCHANGED finish_order
    /\ UNCHANGED retryVars
    /\ UNCHANGED streamVars
    /\ UNCHANGED aggVars
    /\ UNCHANGED consoleVars
    /\ UNCHANGED callVars
    /\ UNCHANGED sessVars

\* _execute_single_model up to the call of search_with_retry.
Lookup(k) ==
    /\ task[k].pc = "lookup"
    /\ IF GetModelClass(k) = "None"
       THEN Complete(k, ExceptResult(k, MsgUnknownModel), None, MsgUnknownModel)
       ELSE /\ task' = [task EXCEPT ![k].pc = "retry",
                                    ![k].tier = LoopEntry("primary").tier,
                                    ![k].attempt = LoopEntry("primary").attempt]
            /\ UNCHANGED <<notified, finish_order>>
    /\ UNCHANGED <<streaming, suppress_thinking, model_keys, pending, batch, results, pc,
                   outcome>>
    /\ UNCHANGED retryVars
    /\ UNCHANGED streamVars
    /\ UNCHANGED aggVars
    /\ UNCHANGED consoleVars
    /\ UNCHANGED callVars
    /\ UNCHANGED sessVars

\* One iteration of a loop of search_with_retry inside the task of key k, and,
\* when search_with_retry returns, the rest of _execute_single_model.
TaskAttempt(k) ==
    /\ task[k].pc = "retry"
    /\ \E resp \in Responses(streaming) :
          LET r == AttemptResult(streaming, suppress_thinking, resp, k)
              step == AfterAttempt(task[k].tier, task[k].attempt, r)
          IN  IF step.tier = "returned"
              THEN Complete(k, SingleModelResult(k, step.ret), step.ret.msg,
                            RaisedAfterSearch(step.ret))
              ELSE /\ task' = [task EXCEPT ![k].tier = step.tier,
                                           ![k].attempt = step.attempt]
                   /\ UNCHANGED <<notified, finish_order>>
    /\ UNCHANGED <<streaming, suppress_thinking, model_keys, pending, batch, results, pc,
                   outcome>>
    /\ UNCHANGED retryVars
    /\ UNCHANGED streamVars
    /\ UNCHANGED aggVars
    /\ UNCHANGED consoleVars
    /\ UNCHANGED callVars
    /\ UNCHANGED sessVars

\* The first next() of as_completed: the futures already done are yielded first,
\* in the iteration order of a set; the deadline starts to run.
AsCompletedStart ==
    /\ pc = "submitted"
    /\ LET finished == { k \in BatchKeys : task[k].fut.done }
       IN  /\ pending' = BatchKeys \ finished
           /\ batch' \in Perms(finished)
    /\ notified' = <<>>
    /\ pc' = "collect"
    /\ UNCHANGED <<streaming, suppress_thinking, model_keys, task, results, outcome>>
    /\ finish_order' = <<>>
    /\ UNCHANGED retryVars
    /\ UNCHANGED streamVars
    /\ UNCHANGED aggVars
    /\ UNCHANGED consoleVars
    /\ UNCHANGED callVars
    /\ UNCHANGED sessVars

\* as_completed yields the next finished future and the loop body runs on it.
Collect ==
    /\ pc = "collect"
    /\ batch # <<>>
    /\ LET k == Head(batch)
       IN  /\ pending' = pending \ {k}
           /\ results' = results \o CollectedFrom(k, task[k].fut)
    /\ batch' = Tail(batch)
    /\ UNCHANGED <<streaming, suppress_thinking, model_keys, task, notified, pc, outcome>>
    /\ UNCHANGED finish_order
    /\ UNCHANGED retryVars
    /\ UNCHANGED streamVars
    /\ UNCHANGED aggVars
    /\ UNCHANGED consoleVars
    /\ UNCHANGED callVars
    /\ UNCHANGED sessVars

\* waiter.event.wait returns before the deadline: the futures finished meanwhile
\* are taken over, in completion order.
Wake ==
    /\ pc = "collect"
    /\ batch = <<>>
    /\ notified # <<>>
    /\ batch' = notified
    /\ notified' = <<>>
    /\ UNCHANGED <<streaming, suppress_thinking, model_keys, task, pending, results, pc,
                   outcome>>
    /\ UNCHANGED finish_order
    /\ UNCHANGED retryVars
    /\ UNCHANGED streamVars
    /\ UNCHANGED aggVars
    /\ UNCHANGED consoleVars
    /\ UNCHANGED callVars
    /\ UNCHANGED sessVars

\* The deadline has passed with futures not yet yielded: as_completed raises
\* TimeoutError from the `for` statement, outside the loop body's try, and the
\* with block starts executor.shutdown(wait=True).
GlobalTimeout ==
    /\ pc = "collect"
    /\ batch = <<>>
    /\ pending # {}
    /\ pc' = "shutdown"
    /\ UNCHANGED <<streaming, suppress_thinking, model_keys, task, pending, notified, batch,
                   results, outcome>>
    /\ UNCHANGED finish_order
    /\ UNCHANGED retryVars
    /\ UNCHANGED streamVars
    /\ UNCHANGED aggVars
    /\ UNCHANGED consoleVars
    /\ UNCHANGED callVars
    /\ UNCHANGED sessVars

\* Every future has been yielded: the loop ends, the with block exits (no task
\* is left to wait for) and execute_models returns self.results.
Return ==
    /\ pc = "collect"
    /\ batch = <<>>
    /\ pending = {}
    /\ pc' = "done"
    /\ outcome' = "returned"
    /\ UNCHANGED <<streaming, suppress_thinking, model_keys, task, pending, notified, batch,
                   results>>
    /\ UNCHANGED finish_order
    /\ UNCHANGED retryVars
    /\ UNCHANGED streamVars
    /\ UNCHANGED aggVars
    /\ UNCHANGED consoleVars
    /\ UNCHANGED callVars
    /\ UNCHANGED sessVars

\* shutdown(wait=True) has seen every task end: the TimeoutError leaves
\* execute_models.
Propagate ==
    /\ pc = "shutdown"
    /\ \A k \in BatchKeys : task[k].pc = "done"
    /\ pc' = "done"
    /\ outcome' = "raised"
    /\ UNCHANGED <<streaming, suppress_thinking, model_keys, task, pending, notified, batch,
                   results>>
    /\ UNCHANGED finish_order
    /\ UNCHANGED retryVars
    /\ UNCHANGED streamVars
    /\ UNCHANGED aggVars
    /\ UNCHANGED consoleVars
    /\ UNCHANGED callVars
    /\ UNCHANGED sessVars

RetryIdle ==
    /\ tier = "idle"
    /\ attempt = 0
    /\ calls = <<>>
    /\ sleeps = <<>>
    /\ ret = Running

Init ==
    /\ streaming \in BOOLEAN
    /\ suppress_thinking \in BOOLEAN
    /\ model_keys \in Batches
    /\ task = [k \in BatchKeys |-> NewTask]
    /\ pending = {}
    /\ notified = <<>>
    /\ batch = <<>>
    /\ results = <<>>
    /\ pc = "start"
    /\ outcome = "running"
    /\ finish_order = <<>>
    /\ RetryIdle
    /\ StreamIdle
    /\ ConsoleIdle
    /\ AggIdle
    /\ CallIdle
    /\ SessIdle

Next ==
    \/ Submit
    \/ \E k \in BatchKeys : WorkerStart(k)
    \/ \E k \in BatchKeys : Lookup(k)
    \/ \E k \in BatchKeys : TaskAttempt(k)
    \/ AsCompletedStart
    \/ Collect
    \/ Wake
    \/ GlobalTimeout
    \/ Return
    \/ Propagate

Spec == Init /\ [][Next]_vars

\* A batch larger than the pool.
LiveInit == Init /\ Len(model_keys) > MaxWorkers

\* What the threads do when they are given time to run: everything but the
\* expiry of the global timeout.
Progress ==
    \/ Submit
    \/ \E k \in BatchKeys : WorkerStart(k)
    \/ \E k \in BatchKeys : Lookup(k)
    \/ \E k \in BatchKeys : TaskAttempt(k)
    \/ AsCompletedStart
    \/ Collect
    \/ Wake
    \/ Return
    \/ Propagate

\* Every network call returns or raises, every sleep ends, and a thread that can
\* run does run.
LiveSpec == LiveInit /\ [][Next]_vars /\ WF_vars(Progress)

----------------------------------------------------------------------------
(* One call of _process_streaming_response, chunk by chunk *)

\* The largest number of pieces (a marker or one character) of a response.
MaxPieces == 4

Pieces == {ThinkOpen, ThinkClose, <<"a">>, <<"b">>}

RECURSIVE TextsOf(_)
TextsOf(n) ==
    IF n = 0 THEN {<<>>}
    ELSE LET prev == TextsOf(n - 1)
         IN  prev \cup { t \o p : t \in prev, p \in Pieces }

\* The responses: every concatenation of at most MaxPieces pieces.
StreamTexts == TextsOf(MaxPieces)

\* A chunk boundary after character p of text falls inside a marker.
SplitsMarker(text, p) ==
    \E pat \in {ThinkOpen, ThinkClose} :
        \E i \in 1..Len(text) :
            IsAt(text, pat, i) /\ i <= p /\ p < i + Len(pat) - 1

\* `for chunk in completion`: the next chunk carries the next n characters.
Chunk(n) ==
    /\ spc = "reading"
    /\ n \in 1..Len(stream)
    /\ cls' = ProcessChunk(cls, SubSeq(stream, 1, n), suppress_thinking)
    /\ stream' = SubSeq(stream, n + 1, Len(stream))
    /\ marker_split' = (marker_split \/ SplitsMarker(cls.msg \o stream, Len(cls.msg) + n))
    /\ UNCHANGED <<streaming, suppress_thinking, spc, sret, fallback>>
    /\ UNCHANGED retryVars
    /\ UNCHANGED dispVars
    /\ UNCHANGED consoleVars
    /\ UNCHANGED aggVars
    /\ UNCHANGED callVars
    /\ UNCHANGED sessVars

\* The chunk stream is exhausted: the text to return is chosen.
StreamEnd ==
    /\ spc = "reading"
    /\ stream = <<>>
    /\ sret' = StreamReturn(cls, suppress_thinking)
    /\ spc' = "returned"
    /\ UNCHANGED <<streaming, suppress_thinking, stream, cls, marker_split, fallback>>
    /\ UNCHANGED retryVars
    /\ UNCHANGED dispVars
    /\ UNCHANGED consoleVars
    /\ UNCHANGED aggVars
    /\ UNCHANGED callVars
    /\ UNCHANGED sessVars

\* Reading the next chunk raises: the except branch falls back on the completion
\* object, and the text to return is chosen.
StreamFail(completion) ==
    /\ spc = "reading"
    /\ fallback' = completion
    /\ cls' = FallBack(cls, completion)
    /\ sret' = StreamReturn(cls', suppress_thinking)
    /\ spc' = "failed"
    /\ UNCHANGED <<streaming, suppress_thinking, stream, marker_split>>
    /\ UNCHANGED retryVars
    /\ UNCHANGED dispVars
    /\ UNCHANGED consoleVars
    /\ UNCHANGED aggVars
    /\ UNCHANGED callVars
    /\ UNCHANGED sessVars

StreamInit ==
    /\ streaming = TRUE
    /\ suppress_thinking \in BOOLEAN
    /\ stream \in StreamTexts
    /\ cls = StreamStart
    /\ spc = "reading"
    /\ sret = None
    /\ marker_split = FALSE
    /\ fallback = NoFallback
    /\ RetryIdle
    /\ DispIdle
    /\ ConsoleIdle
    /\ AggIdle
    /\ CallIdle
    /\ SessIdle

StreamNext ==
    \/ \E n \in 1..Len(stream) : Chunk(n)
    \/ StreamEnd
    \/ \E completion \in Completions : StreamFail(completion)

StreamSpec == StreamInit /\ [][StreamNext]_vars

----------------------------------------------------------------------------
(* The console and the two locks during one batch, specification ConsoleSpec *)
(* The main thread runs execute_models; every pool thread runs one         *)
(* _execute_single_model.  A thread is at a site (a print, a call, a sleep, *)
(* an append) and, for a print or an append, either before it or inside it. *)
(* The attempt counter of search_with_retry is left out: an iteration takes *)
(* the same locks whatever its number, so a failed attempt may be followed  *)
(* by a sleep and a retry, by the next tier, or by the final report.        *)

\* The thread that called execute_models.
Dispatcher == 0

\* The threads of ThreadPoolExecutor(max_workers=self.max_workers).
ConsoleWorkers == 1..MaxWorkers

ConsoleThreads == {Dispatcher} \cup ConsoleWorkers

\* The sites whose print is wrapped in `with self.output_lock`:
\*   "start"    _execute_single_model, the "running <model>" line
\*   "status"   _safe_print_status, the lines that announce an attempt
\*   "begin"    _safe_print, the "<model> starts answering" line
\*   "elapsed"  _safe_print_status, the elapsed-time line
\*   "error"    _safe_print_status, the lines that report a failed attempt
\*   "giveup"   _safe_print_status, the lines after both tiers are exhausted
LockedPrints == {"start", "status", "begin", "elapsed", "error", "giveup"}

\* The sites that call print directly:
\*   "chunk"    _process_streaming_response, print(printable_total, ...)
\*   "newline"  _process_streaming_response, print()
\*   "header"   execute_models, the lines before the pool is created
\*   "progress" execute_models, the line printed for a collected result
\*   "summary"  execute_models, the lines after the pool has shut down
BarePrints == {"chunk", "newline", "header", "progress", "summary"}

PrintSites == LockedPrints \cup BarePrints

\* Where control goes after a site, given the `streaming` argument.
AfterSite(at, strm) ==
    CASE at = "header" -> {"submit"}
      [] at = "progress" -> {"collect"}
      [] at = "summary" -> {"returned"}
      [] at = "start" -> {"status"}
      [] at = "status" -> {"create"}
      [] at = "create" -> IF strm THEN {"begin", "error"} ELSE {"elapsed", "error"}
      [] at = "begin" -> {"chunk", "newline"}
      [] at = "chunk" -> {"chunk", "newline"}
      [] at = "newline" -> {"elapsed", "error"}
      [] at = "elapsed" -> {"done"}
      [] at = "error" -> {"sleep", "status", "giveup"}
      [] at = "sleep" -> {"status"}
      [] at = "giveup" -> {"done"}
      [] OTHER -> {}

Writing(t) == thr[t].at \in PrintSites /\ thr[t].inside

\* A thread reaches print(...); a locked print first acquires the output lock.
BeginPrint(t) ==
    /\ thr[t].at \in PrintSites
    /\ ~thr[t].inside
    /\ IF thr[t].at \in BarePrints
       THEN UNCHANGED output_lock
       ELSE output_lock = Free /\ output_lock' = t
    /\ thr' = [thr EXCEPT ![t].inside = TRUE]
    /\ UNCHANGED <<streaming, suppress_thinking, lock, collected>>
    /\ UNCHANGED retryVars
    /\ UNCHANGED dispVars
    /\ UNCHANGED streamVars
    /\ UNCHANGED aggVars
    /\ UNCHANGED callVars
    /\ UNCHANGED sessVars

\* Mutant of EndPrint: the output lock is not released when the line is written.
EndPrint_KeepsLock(t) ==
    /\ Writing(t)
    /\ \E nxt \in AfterSite(thr[t].at, streaming) :
          thr' = [thr EXCEPT ![t] = [at |-> nxt, inside |-> FALSE]]
    /\ output_lock' = output_lock
    /\ UNCHANGED <<streaming, suppress_thinking, lock, collected>>
    /\ UNCHANGED retryVars
    /\ UNCHANGED dispVars
    /\ UNCHANGED streamVars
    /\ UNCHANGED aggVars
    /\ UNCHANGED callVars
    /\ UNCHANGED sessVars

\* print(...) returns; a locked print leaves the `with` block.
EndPrint(t) ==
    /\ Writing(t)
    /\ \E nxt \in AfterSite(thr[t].at, streaming) :
          thr' = [thr EXCEPT ![t] = [at |-> nxt, inside |-> FALSE]]
    /\ output_lock' = IF thr[t].at \in BarePrints THEN output_lock ELSE Free
    /\ UNCHANGED <<streaming, suppress_thinking, lock, collected>>
    /\ UNCHANGED retryVars
    /\ UNCHANGED dispVars
    /\ UNCHANGED streamVars
    /\ UNCHANGED aggVars
    /\ UNCHANGED callVars
    /\ UNCHANGED sessVars

\* executor.submit for every key: the pool threads may start.
ConsoleSubmit ==
    /\ thr[Dispatcher].at = "submit"
    /\ thr' = [t \in ConsoleThreads |->
                 IF t = Dispatcher THEN [at |-> "collect", inside |-> FALSE]
                 ELSE [at |-> "lookup", inside |-> FALSE]]
    /\ UNCHANGED <<streaming, suppress_thinking, output_lock, lock, collected>>
    /\ UNCHANGED retryVars
    /\ UNCHANGED dispVars
    /\ UNCHANGED streamVars
    /\ UNCHANGED aggVars
    /\ UNCHANGED callVars
    /\ UNCHANGED sessVars

\* registry.get_model_class: an unknown key raises before anything is printed.
ConsoleLookup(t) ==
    /\ t \in ConsoleWorkers
    /\ thr[t].at = "lookup"
    /\ \E nxt \in {"start", "done"} :
          thr' = [thr EXCEPT ![t].at = nxt]
    /\ UNCHANGED <<streaming, suppress_thinking, output_lock, lock, collected>>
    /\ UNCHANGED retryVars
    /\ UNCHANGED dispVars
    /\ UNCHANGED streamVars
    /\ UNCHANGED aggVars
    /\ UNCHANGED callVars
    /\ UNCHANGED sessVars

\* openai.ChatCompletion.create, or time.sleep: no lock is taken.
CallOrSleep(t) ==
    /\ thr[t].at \in {"create", "sleep"}
    /\ \E nxt \in AfterSite(thr[t].at, streaming) :
          thr' = [thr EXCEPT ![t].at = nxt]
    /\ UNCHANGED <<streaming, suppress_thinking, output_lock, lock, collected>>
    /\ UNCHANGED retryVars
    /\ UNCHANGED dispVars
    /\ UNCHANGED streamVars
    /\ UNCHANGED aggVars
    /\ UNCHANGED callVars
    /\ UNCHANGED sessVars

\* Mutant of BeginAppend: the append is reached without `with self.lock`.
BeginAppend_NoLock(w) ==
    /\ thr[Dispatcher].at = "collect"
    /\ w \in ConsoleWorkers \ collected
    /\ thr[w].at = "done"
    /\ lock' = lock
    /\ collected' = collected \cup {w}
    /\ thr' = [thr EXCEPT ![Dispatcher] = [at |-> "append", inside |-> TRUE]]
    /\ UNCHANGED <<streaming, suppress_thinking, output_lock>>
    /\ UNCHANGED retryVars
    /\ UNCHANGED dispVars
    /\ UNCHANGED streamVars
    /\ UNCHANGED aggVars
    /\ UNCHANGED callVars
    /\ UNCHANGED sessVars

\* as_completed yields the future of a finished worker; `with self.lock` is entered.
BeginAppend(w) ==
    /\ thr[Dispatcher].at = "collect"
    /\ w \in ConsoleWorkers \ collected
    /\ thr[w].at = "done"
    /\ lock = Free
    /\ lock' = Dispatcher
    /\ collected' = collected \cup {w}
    /\ thr' = [thr EXCEPT ![Dispatcher] = [at |-> "append", inside |-> TRUE]]
    /\ UNCHANGED <<streaming, suppress_thinking, output_lock>>
    /\ UNCHANGED retryVars
    /\ UNCHANGED dispVars
    /\ UNCHANGED streamVars
    /\ UNCHANGED aggVars
    /\ UNCHANGED callVars
    /\ UNCHANGED sessVars

\* self.results.append(result) is done; the `with self.lock` block is left.
EndAppend ==
    /\ thr[Dispatcher].at = "append"
    /\ lock' = Free
    /\ thr' = [thr EXCEPT ![Dispatcher] = [at |-> "progress", inside |-> FALSE]]
    /\ UNCHANGED <<streaming, suppress_thinking, output_lock, collected>>
    /\ UNCHANGED retryVars
    /\ UNCHANGED dispVars
    /\ UNCHANGED streamVars
    /\ UNCHANGED aggVars
    /\ UNCHANGED callVars
    /\ UNCHANGED sessVars

\* The global timeout ends as_completed while a future is still awaited: the
\* TimeoutError leaves the loop and the `with` block starts the pool's shutdown.
ConsoleTimeout ==
    /\ thr[Dispatcher].at = "collect"
    /\ \E w \in ConsoleWorkers : thr[w].at # "done"
    /\ thr' = [thr EXCEPT ![Dispatcher].at = "shutdown"]
    /\ UNCHANGED <<streaming, suppress_thinking, output_lock, lock, collected>>
    /\ UNCHANGED retryVars
    /\ UNCHANGED dispVars
    /\ UNCHANGED streamVars
    /\ UNCHANGED aggVars
    /\ UNCHANGED callVars
    /\ UNCHANGED sessVars

\* The `with ThreadPoolExecutor` block is left once every pool thread is done:
\* after the last result towards the summary, after a timeout with the
\* TimeoutError.
ConsolePoolExit ==
    /\ \/ thr[Dispatcher].at = "collect" /\ collected = ConsoleWorkers
       \/ thr[Dispatcher].at = "shutdown"
    /\ \A w \in ConsoleWorkers : thr[w].at = "done"
    /\ thr' = [thr EXCEPT ![Dispatcher].at =
                  IF thr[Dispatcher].at = "collect" THEN "summary" ELSE "raised"]
    /\ UNCHANGED <<streaming, suppress_thinking, output_lock, lock, collected>>
    /\ UNCHANGED retryVars
    /\ UNCHANGED dispVars
    /\ UNCHANGED streamVars
    /\ UNCHANGED aggVars
    /\ UNCHANGED callVars
    /\ UNCHANGED sessVars

ConsoleInit ==
    /\ streaming \in BOOLEAN
    /\ suppress_thinking \in BOOLEAN
    /\ thr = [t \in ConsoleThreads |->
                 IF t = Dispatcher THEN [at |-> "header", inside |-> FALSE]
                 ELSE [at |-> "unborn", inside |-> FALSE]]
    /\ output_lock = Free
    /\ lock = Free
    /\ collected = {}
    /\ RetryIdle
    /\ DispIdle
    /\ StreamIdle
    /\ AggIdle
    /\ CallIdle
    /\ SessIdle

ConsoleNext ==
    \/ \E t \in ConsoleThreads : BeginPrint(t)
    \/ \E t \in ConsoleThreads : EndPrint(t)
    \/ ConsoleSubmit
    \/ \E t \in ConsoleWorkers : ConsoleLookup(t)
    \/ \E t \in ConsoleWorkers : CallOrSleep(t)
    \/ \E w \in ConsoleWorkers : BeginAppend(w)
    \/ EndAppend
    \/ ConsoleTimeout
    \/ ConsolePoolExit

ConsoleSpec == ConsoleInit /\ [][ConsoleNext]_vars

\* Some pool thread is running a task.
WorkersRunning == \E w \in ConsoleWorkers : thr[w].at \notin {"unborn", "lookup", "done"}

\* C17: while the tasks of a batch run, every thread that is writing to the
\* console holds the output lock.
C17_WritesUnderLock ==
    \A t \in ConsoleThreads : (Writing(t) /\ WorkersRunning) => output_lock = t

----------------------------------------------------------------------------
(* ReportAggregator (report_aggregator.py), specification AggSpec *)
(* Times are whole seconds; a quotient is kept as a fraction in lowest      *)
(* terms.  A summary text and a rendered report are kept as the sequence of *)
(* their entries, in the order in which they are written.                   *)

RECURSIVE Gcd(_, _)
Gcd(a, b) == IF b = 0 THEN a ELSE Gcd(b, a % b)

\* a / b
Div(a, b) == [num |-> a \div Gcd(a, b), den |-> b \div Gcd(a, b)]

\* The literal 0 returned when there is no success.
Zero == [num |-> 0, den |-> 1]

\* text.replace(pat, ""): every occurrence, left to right, without overlap.
RECURSIVE Replace(_, _)
Replace(text, pat) ==
    IF text = <<>> THEN <<>>
    ELSE IF IsAt(text, pat, 1)
    THEN Replace(SubSeq(text, Len(pat) + 1, Len(text)), pat)
    ELSE <<Head(text)>> \o Replace(Tail(text), pat)

\* re.sub(r"<think>[\s\S]*?</think>", "", text): the leftmost opening marker
\* together with the text up to the first closing marker after it is removed,
\* and the search goes on behind it.
RECURSIVE RemoveSpans(_)
RemoveSpans(text) ==
    LET open == Find(text, ThinkOpen)
        after == SubSeq(text, open + Len(ThinkOpen), Len(text))
        close == Find(after, ThinkClose)
    IN  IF open = 0 \/ close = 0 THEN text
        ELSE SubSeq(text, 1, open - 1)
             \o RemoveSpans(SubSeq(after, close + Len(ThinkClose), Len(after)))

\* Mutant of StripThink: only paired spans are removed.
StripThink_PairsOnly(text) == IF text = <<>> THEN text ELSE RemoveSpans(text)

\* _strip_think
StripThink(text) ==
    IF text = <<>> THEN text
    ELSE Replace(Replace(RemoveSpans(text), ThinkOpen), ThinkClose)

\* Mutant of Unsuccessful: no result counts as failed.
Unsuccessful_None(rs) == <<>>

\* Mutant of Successful: nothing is filtered out.
Successful_All(rs) == rs

\* [r for r in results if r.status == "success"]
Successful(rs) == SelectSeq(rs, LAMBDA r : r.status = "success")

\* [r for r in results if r.status != "success"]
Unsuccessful(rs) == SelectSeq(rs, LAMBDA r : r.status # "success")

RECURSIVE SumTimes(_)
SumTimes(rs) == IF rs = <<>> THEN 0 ELSE Head(rs).execution_time + SumTimes(Tail(rs))

MinTime(rs) ==
    CHOOSE m \in { rs[i].execution_time : i \in 1..Len(rs) } :
        \A i \in 1..Len(rs) : m <= rs[i].execution_time

MaxTime(rs) ==
    CHOOSE m \in { rs[i].execution_time : i \in 1..Len(rs) } :
        \A i \in 1..Len(rs) : m >= rs[i].execution_time

\* The success_rate entry of _calculate_execution_summary.
SuccessRate(rs) ==
    IF Successful(rs) = <<>> THEN Zero
    ELSE Div(Len(Successful(rs)), Len(rs))

\* _calculate_execution_summary
ExecutionSummary(rs) ==
    LET successful_results == Successful(rs)
    IN  IF successful_results = <<>>
        THEN [total_time |-> 0, average_time |-> Zero, min_time |-> 0, max_time |-> 0,
              success_rate |-> Zero]
        ELSE [total_time |-> SumTimes(successful_results),
              average_time |-> Div(SumTimes(successful_results), Len(successful_results)),
              min_time |-> MinTime(successful_results),
              max_time |-> MaxTime(successful_results),
              success_rate |-> SuccessRate(rs)]

\* The response_info entry built for one result.
ResponseInfo(r) ==
    [model_key |-> r.model_key,
     status |-> r.status,
     execution_time |-> r.execution_time,
     response |-> IF r.status = "success" THEN StripThink(r.response) ELSE r.error_message,
     response_length |-> IF r.status = "success" THEN Len(StripThink(r.response)) ELSE 0]

\* One step of sorted(..., key=response_length, reverse=True): x goes behind the
\* entries that are at least as long (the sort is stable).
RECURSIVE InsertByLength(_, _)
InsertByLength(sorted, x) ==
    IF sorted = <<>> THEN <<x>>
    ELSE IF Head(sorted).response_length >= x.response_length
    THEN <<Head(sorted)>> \o InsertByLength(Tail(sorted), x)
    ELSE <<x>> \o sorted

\* Insertion of the responses one after the other, from the first to the last.
RECURSIVE InsertAll(_)
InsertAll(rs) ==
    IF rs = <<>> THEN <<>>
    ELSE InsertByLength(InsertAll(SubSeq(rs, 1, Len(rs) - 1)), rs[Len(rs)])

\* Mutant of SortedByLength: the responses stay in the order of the result list.
SortedByLength_Unsorted(rs) == rs

\* sorted(successful_responses, key=lambda x: x["response_length"], reverse=True)
SortedByLength(rs) == InsertAll(rs)

\* response['response'][:200]
SummaryLimit == 200

Truncated(text) == SubSeq(text, 1, IF Len(text) < SummaryLimit THEN Len(text) ELSE SummaryLimit)

\* _generate_summary_text: the failure notice, or the header and one entry per
\* successful response.
SummaryText(query, model_responses, execution_summary) ==
    LET successful_responses == Successful(model_responses)
        sorted_responses == SortedByLength(successful_responses)
    IN  IF successful_responses = <<>>
        THEN [kind |-> "failure notice", query |-> query, entries |-> <<>>]
        ELSE [kind |-> "summary", query |-> query,
              entries |-> [i \in 1..Len(sorted_responses) |->
                              [model_key |-> sorted_responses[i].model_key,
                               execution_time |-> sorted_responses[i].execution_time,
                               response |-> Truncated(sorted_responses[i].response),
                               ellipsis |-> Len(sorted_responses[i].response) > SummaryLimit]]]

\* Mutant of Timestamp: the reports are numbered, the aggregator counting its
\* calls.
Timestamp_CallNumber(now) == [time |-> now, call |-> Len(reports) + 1]

\* time.strftime("%Y-%m-%d %H:%M:%S"): the time of the call, to the second; the
\* aggregator keeps no count of its calls.
Timestamp(now) == [time |-> now, call |-> 0]

\* aggregate_results, called at time now.
AggregateResults(query, rs, now) ==
    LET model_responses == [i \in 1..Len(rs) |-> ResponseInfo(rs[i])]
    IN  [query |-> query,
         timestamp |-> Timestamp(now),
         total_models |-> Len(rs),
         successful_models |-> Len(Successful(rs)),
         failed_models |-> Len(Unsuccessful(rs)),
         execution_summary |-> ExecutionSummary(rs),
         model_responses |-> model_responses,
         summary_text |-> SummaryText(query, model_responses, ExecutionSummary(rs))]

\* _generate_structured_report: the ranked successful responses, or the notice
\* that there is none, and the list of the failed ones with their message.
StructuredReport(report) ==
    LET successful_responses == Successful(report.model_responses)
        failed_responses == Unsuccessful(report.model_responses)
    IN  [timestamp |-> report.timestamp,
         ranked |-> SortedByLength(successful_responses),
         no_answer_notice |-> successful_responses = <<>>,
         failed |-> [i \in 1..Len(failed_responses) |->
                        [model_key |-> failed_responses[i].model_key,
                         message |-> failed_responses[i].response]]]

\* The longest result list handed to the aggregator.
MaxResults == 2

\* The latest reading of the clock.
MaxClock == 1

\* The responses of the successful results of a list: plain text of two lengths,
\* a paired span before text, an empty paired span, an unpaired opening marker.
AggTexts ==
    { <<"a">>, <<"a", "b">>, ThinkOpen \o <<"a">> \o ThinkClose \o <<"b">>,
      ThinkOpen \o ThinkClose, <<"a">> \o ThinkOpen }

\* The pieces of the responses with nested and overlapping markers.
TagPieces == {ThinkOpen, ThinkClose, <<"a">>, <<"<">>, <<"t", ">">>}

RECURSIVE TagTextsOf(_)
TagTextsOf(n) ==
    IF n = 0 THEN {<<>>}
    ELSE LET prev == TagTextsOf(n - 1)
         IN  prev \cup { t \o p : t \in prev, p \in TagPieces }

TagTexts == TagTextsOf(MaxPieces)

\* The ModelResults execute_models can put into its list for key k.
ResultsFor(k) ==
    { [model_key |-> k, status |-> "success", response |-> t, execution_time |-> e,
       error_message |-> NoMessage] : t \in AggTexts, e \in {1, 2} }
    \cup
    { [model_key |-> k, status |-> "error", response |-> <<>>, execution_time |-> 1,
       error_message |-> MsgEmptyResponse] }

RECURSIVE ResultLists(_)
ResultLists(n) ==
    IF n = 0 THEN {<<>>}
    ELSE LET prev == ResultLists(n - 1)
         IN  prev \cup { Append(l, r) : l \in { x \in prev : Len(x) = n - 1 },
                                        r \in ResultsFor(n) }

\* The result lists: every list of at most MaxResults results, and the lists
\* of one successful result with any response made of at most MaxPieces pieces.
AggInputs ==
    ResultLists(MaxResults)
    \cup { << [model_key |-> 1, status |-> "success", response |-> t,
               execution_time |-> 1, error_message |-> NoMessage] >> : t \in TagTexts }

\* A second goes by.
Tick ==
    /\ clock < MaxClock
    /\ clock' = clock + 1
    /\ UNCHANGED <<streaming, suppress_thinking, agg_results, reports, rendered>>
    /\ UNCHANGED retryVars
    /\ UNCHANGED dispVars
    /\ UNCHANGED streamVars
    /\ UNCHANGED consoleVars
    /\ UNCHANGED callVars
    /\ UNCHANGED sessVars

\* report = aggregate_results(query, results), followed, as in main.py, by
\* generate_report(report, "structured").
Aggregate ==
    /\ Len(reports) < 2
    /\ reports' = Append(reports, AggregateResults("q", agg_results, clock))
    /\ rendered' = Append(rendered, StructuredReport(AggregateResults("q", agg_results, clock)))
    /\ UNCHANGED <<streaming, suppress_thinking, agg_results, clock>>
    /\ UNCHANGED retryVars
    /\ UNCHANGED dispVars
    /\ UNCHANGED streamVars
    /\ UNCHANGED consoleVars
    /\ UNCHANGED callVars
    /\ UNCHANGED sessVars

AggInit ==
    /\ streaming = TRUE
    /\ suppress_thinking = TRUE
    /\ agg_results \in AggInputs
    /\ clock = 0
    /\ reports = <<>>
    /\ rendered = <<>>
    /\ RetryIdle
    /\ DispIdle
    /\ StreamIdle
    /\ ConsoleIdle
    /\ CallIdle
    /\ SessIdle

AggNext == Tick \/ Aggregate

AggSpec == AggInit /\ [][AggNext]_vars

----------------------------------------------------------------------------
(* search_with_retry run by concurrent worker threads *)

\* Two worker threads of the pool, each inside search_with_retry for its own key.
Callers == {1, 2}

\* The most chunks one streamed response is delivered in.
MaxChunks == 2

\* The delta contents of the chunks.
ChunkTexts == {ThinkOpen, ThinkClose, <<"a">>}

NoTarget == "none"

\* A worker thread at the top of loop t, iteration att: no request sent, no
\* stream being read.
AtSetup(t, att) ==
    [at |-> "setup", tier |-> t, attempt |-> att, target |-> NoTarget,
     st |-> StreamStart, seen |-> <<>>]

\* search_with_retry has returned to _execute_single_model.
CallReturned == [AtSetup("returned", 0) EXCEPT !.at = "returned"]

\* `if msg: return msg, completion  else: raise ValueError(...)` after a stream
\* has been read.
MsgResult(msg, callId) ==
    IF Truthy(msg)
    THEN [ok |-> TRUE, msg |-> msg, completion |-> callId, err |-> NoErr]
    ELSE [ok |-> FALSE, msg |-> None, completion |-> 0, err |-> ErrNoValid]

\* Thread w leaves an iteration with result r: it returns, or goes to the next
\* iteration (after the backoff sleep, if any).
Advance(cs, w, r) ==
    LET step == AfterAttempt(cs[w].tier, cs[w].attempt, r)
    IN  [cs EXCEPT ![w] = IF step.tier = "returned" THEN CallReturned
                          ELSE AtSetup(step.tier, step.attempt)]

\* Mutant of Consume: the stream state is kept in one place for all the threads.
Consume_Shared(cs, w, raw, suppress) ==
    [v \in DOMAIN cs |->
        [cs[v] EXCEPT !.st = ProcessChunk(@, raw, suppress),
                      !.seen = IF v = w THEN Append(@, raw) ELSE @]]

\* The chunk loop of thread w's _process_streaming_response takes one chunk: msg,
\* thinking_content, final_content and in_thinking are locals of that call.
Consume(cs, w, raw, suppress) ==
    [cs EXCEPT ![w].st = ProcessChunk(@, raw, suppress),
               ![w].seen = Append(@, raw)]

\* self._setup_api_config(use_primary=...) by thread w: the module globals are
\* assigned.
CallSetup(w) ==
    /\ call[w].at = "setup"
    /\ api_base' = SetupApiConfig(call[w].tier = "primary")
    /\ call' = [call EXCEPT ![w].at = "create"]
    /\ UNCHANGED <<streaming, suppress_thinking>>
    /\ UNCHANGED retryVars
    /\ UNCHANGED dispVars
    /\ UNCHANGED streamVars
    /\ UNCHANGED consoleVars
    /\ UNCHANGED aggVars
    /\ UNCHANGED sessVars

\* openai.ChatCompletion.create(...) by thread w: the request is built from the
\* module globals as they are now, and sent.
CallCreate(w) ==
    /\ call[w].at = "create"
    /\ call' = [call EXCEPT ![w].at = "sent", ![w].target = api_base]
    /\ UNCHANGED <<streaming, suppress_thinking, api_base>>
    /\ UNCHANGED retryVars
    /\ UNCHANGED dispVars
    /\ UNCHANGED streamVars
    /\ UNCHANGED consoleVars
    /\ UNCHANGED aggVars
    /\ UNCHANGED sessVars

\* The request of thread w comes back: an exception or a whole completion end the
\* iteration; a chunk stream starts a call of _process_streaming_response.
CallRespond(w) ==
    /\ call[w].at = "sent"
    /\ \E resp \in Responses(streaming) :
          IF resp.kind = "stream"
          THEN call' = [call EXCEPT ![w].at = "stream", ![w].target = NoTarget,
                                    ![w].st = StreamStart, ![w].seen = <<>>]
          ELSE call' = Advance(call, w, AttemptResult(streaming, suppress_thinking, resp, w))
    /\ UNCHANGED <<streaming, suppress_thinking, api_base>>
    /\ UNCHANGED retryVars
    /\ UNCHANGED dispVars
    /\ UNCHANGED streamVars
    /\ UNCHANGED consoleVars
    /\ UNCHANGED aggVars
    /\ UNCHANGED sessVars

\* One chunk reaches thread w.
CallChunk(w) ==
    /\ call[w].at = "stream"
    /\ Len(call[w].seen) < MaxChunks
    /\ \E raw \in ChunkTexts : call' = Consume(call, w, raw, suppress_thinking)
    /\ UNCHANGED <<streaming, suppress_thinking, api_base>>
    /\ UNCHANGED retryVars
    /\ UNCHANGED dispVars
    /\ UNCHANGED streamVars
    /\ UNCHANGED consoleVars
    /\ UNCHANGED aggVars
    /\ UNCHANGED sessVars

\* The stream of thread w ends, or reading it fails and the except branch falls
\* back on the completion object; _process_streaming_response returns and the
\* iteration ends.
CallStreamEnd(w) ==
    /\ call[w].at = "stream"
    /\ \E final \in {call[w].st} \cup { FallBack(call[w].st, c) : c \in Completions } :
          call' = Advance(call, w, MsgResult(StreamReturn(final, suppress_thinking), w))
    /\ UNCHANGED <<streaming, suppress_thinking, api_base>>
    /\ UNCHANGED retryVars
    /\ UNCHANGED dispVars
    /\ UNCHANGED streamVars
    /\ UNCHANGED consoleVars
    /\ UNCHANGED aggVars
    /\ UNCHANGED sessVars

CallInit ==
    /\ streaming \in BOOLEAN
    /\ suppress_thinking \in BOOLEAN
    /\ api_base = DefaultTarget
    /\ call = [w \in Callers |-> AtSetup(LoopEntry("primary").tier, LoopEntry("primary").attempt)]
    /\ RetryIdle
    /\ DispIdle
    /\ StreamIdle
    /\ ConsoleIdle
    /\ AggIdle
    /\ SessIdle

CallNext ==
    \E w \in Callers :
        \/ CallSetup(w)
        \/ CallCreate(w)
        \/ CallRespond(w)
        \/ CallChunk(w)
        \/ CallStreamEnd(w)

CallSpec == CallInit /\ [][CallNext]_vars

----------------------------------------------------------------------------
(* Successive execute_models calls on one executor *)

\* The most execute_models calls made on the executor.
MaxCalls == 2

\* Mutant of NewResults: the list self.results refers to is emptied in place.
NewResults_ClearedInPlace(h, ref) ==
    [heap |-> [h EXCEPT ![ref] = <<>>], ref |-> ref]

\* `self.results = []`: a new list object is made and self.results refers to it;
\* the object it referred to before is left as it is.
NewResults(h, ref) ==
    [heap |-> Append(h, <<>>), ref |-> Len(h) + 1]

\* execute_models(model_keys, ...) is called: self.results is reset and the tasks
\* are submitted.
SessCall(keys) ==
    /\ sess.pc = "idle"
    /\ Len(heap) - 1 < MaxCalls
    /\ heap' = NewResults(heap, self_results).heap
    /\ self_results' = NewResults(heap, self_results).ref
    /\ sess' = [pc |-> "collecting", keys |-> keys, left |-> keys]
    /\ UNCHANGED <<streaming, suppress_thinking, returned>>
    /\ UNCHANGED retryVars
    /\ UNCHANGED dispVars
    /\ UNCHANGED streamVars
    /\ UNCHANGED consoleVars
    /\ UNCHANGED aggVars
    /\ UNCHANGED callVars

\* as_completed yields the future of key k: its result is appended to the list
\* self.results refers to.  A result is written as its key and the call that
\* made it; its status and text play no part here.
SessCollect(k) ==
    /\ sess.pc = "collecting"
    /\ k \in sess.left
    /\ heap' = [heap EXCEPT ![self_results] =
                   Append(@, [model_key |-> k, call |-> Len(heap) - 1])]
    /\ sess' = [sess EXCEPT !.left = @ \ {k}]
    /\ UNCHANGED <<streaming, suppress_thinking, self_results, returned>>
    /\ UNCHANGED retryVars
    /\ UNCHANGED dispVars
    /\ UNCHANGED streamVars
    /\ UNCHANGED consoleVars
    /\ UNCHANGED aggVars
    /\ UNCHANGED callVars

\* `return self.results`: the caller gets the list object itself.
SessReturn ==
    /\ sess.pc = "collecting"
    /\ sess.left = {}
    /\ returned' = Append(returned, [ref |-> self_results, keys |-> sess.keys,
                                     value |-> heap[self_results]])
    /\ sess' = NoCall
    /\ UNCHANGED <<streaming, suppress_thinking, heap, self_results>>
    /\ UNCHANGED retryVars
    /\ UNCHANGED dispVars
    /\ UNCHANGED streamVars
    /\ UNCHANGED consoleVars
    /\ UNCHANGED aggVars
    /\ UNCHANGED callVars

\* The global timeout elapses with futures outstanding: TimeoutError leaves
\* execute_models, nothing is returned and self.results keeps what was collected.
SessTimeout ==
    /\ sess.pc = "collecting"
    /\ sess.left # {}
    /\ sess' = NoCall
    /\ UNCHANGED <<streaming, suppress_thinking, heap, self_results, returned>>
    /\ UNCHANGED retryVars
    /\ UNCHANGED dispVars
    /\ UNCHANGED streamVars
    /\ UNCHANGED consoleVars
    /\ UNCHANGED aggVars
    /\ UNCHANGED callVars

\* The executor as __init__ leaves it: self.results refers to a first empty list.
SessInit ==
    /\ streaming = TRUE
    /\ suppress_thinking = TRUE
    /\ heap = << <<>> >>
    /\ self_results = 1
    /\ returned = <<>>
    /\ sess = NoCall
    /\ RetryIdle
    /\ DispIdle
    /\ StreamIdle
    /\ ConsoleIdle
    /\ AggIdle
    /\ CallIdle

SessNext ==
    \/ \E keys \in (SUBSET AllKeys) \ {{}} : SessCall(keys)
    \/ \E k \in AllKeys : SessCollect(k)
    \/ SessReturn
    \/ SessTimeout

SessionSpec == SessInit /\ [][SessNext]_vars

----------------------------------------------------------------------------
(* Claims about _process_streaming_response, checked under StreamSpec *)

\* The answer text and the thinking text of a whole response, read character by
\* character: "<think>" opens a thinking region, "</think>" closes it, every
\* other character belongs to the region it stands in.
RECURSIVE RefSplit(_, _, _)
RefSplit(text, i, inside) ==
    IF i > Len(text) THEN [answer |-> <<>>, thinking |-> <<>>]
    ELSE IF IsAt(text, ThinkOpen, i) THEN RefSplit(text, i + Len(ThinkOpen), TRUE)
    ELSE IF IsAt(text, ThinkClose, i) THEN RefSplit(text, i + Len(ThinkClose), FALSE)
    ELSE LET r == RefSplit(text, i + 1, inside)
         IN  IF inside THEN [r EXCEPT !.thinking = <<text[i]>> \o @]
             ELSE [r EXCEPT !.answer = <<text[i]>> \o @]

RefAnswer(text) == RefSplit(text, 1, FALSE).answer
RefThinking(text) == RefSplit(text, 1, FALSE).thinking

\* The markers of a text, in order.
RECURSIVE MarkerSeq(_, _)
MarkerSeq(text, i) ==
    IF i > Len(text) THEN <<>>
    ELSE IF IsAt(text, ThinkOpen, i)
    THEN <<"open">> \o MarkerSeq(text, i + Len(ThinkOpen))
    ELSE IF IsAt(text, ThinkClose, i)
    THEN <<"close">> \o MarkerSeq(text, i + Len(ThinkClose))
    ELSE MarkerSeq(text, i + 1)

\* The markers form zero or more complete thinking spans.
WellFormed(text) ==
    LET m == MarkerSeq(text, 1)
    IN  /\ Len(m) % 2 = 0
        /\ \A j \in 1..Len(m) : m[j] = IF j % 2 = 1 THEN "open" ELSE "close"

HasMarkup(text) == Find(text, ThinkOpen) # 0 \/ Find(text, ThinkClose) # 0

\* C12: for any split of the response into chunks, one character at a time
\* included, the answer output is the response's text outside the thinking
\* regions: no marker character is left in it, nothing is dropped or duplicated.
C12_RoundTrip ==
    (spc = "returned" /\ suppress_thinking) => cls.final_content = RefAnswer(cls.msg)

C14_AnswerOnly ==
    (spc = "returned" /\ suppress_thinking /\ ~marker_split) =>
        sret = RefAnswer(cls.msg)

\* C15: at every moment the thinking stream is the text received so far inside
\* thinking regions, the last region being terminated or not.
C15_ThinkingStream ==
    (spc # "idle" /\ ~marker_split) => cls.thinking_content = RefThinking(cls.msg)

\* A whole response read character by character, every marker flipping the
\* region: the text before a marker belongs to the region current before it.
RECURSIVE FlipSplit(_, _, _)
FlipSplit(text, i, inside) ==
    IF i > Len(text) THEN [answer |-> <<>>, thinking |-> <<>>, inside |-> inside]
    ELSE IF IsAt(text, ThinkOpen, i) THEN FlipSplit(text, i + Len(ThinkOpen), ~inside)
    ELSE IF IsAt(text, ThinkClose, i) THEN FlipSplit(text, i + Len(ThinkClose), ~inside)
    ELSE LET r == FlipSplit(text, i + 1, inside)
         IN  IF inside THEN [r EXCEPT !.thinking = <<text[i]>> \o @]
             ELSE [r EXCEPT !.answer = <<text[i]>> \o @]

\* A text without its markers.
RECURSIVE Unmarked(_, _)
Unmarked(text, i) ==
    IF i > Len(text) THEN <<>>
    ELSE IF IsAt(text, ThinkOpen, i) THEN Unmarked(text, i + Len(ThinkOpen))
    ELSE IF IsAt(text, ThinkClose, i) THEN Unmarked(text, i + Len(ThinkClose))
    ELSE <<text[i]>> \o Unmarked(text, i + 1)

\* C34: after any sequence of whole markers and text, the flag has been flipped
\* once per marker, the text met while the flag was set is in the thinking
\* stream and, with suppress_thinking, the text met while it was clear is the
\* answer stream; two opening markers in a row, or a closing marker with no
\* opening one, flip it like any other.
C34_EmitThenFlip ==
    (spc \in {"reading", "returned"} /\ ~marker_split) =>
        LET r == FlipSplit(cls.msg, 1, FALSE)
        IN  /\ cls.in_thinking = r.inside
            /\ Unmarked(cls.thinking_content, 1) = r.thinking
            /\ suppress_thinking => cls.final_content = r.answer

\* C28: when reading the chunk stream has failed and the fallback has extracted
\* nothing, the text handed to search_with_retry is empty, so that the attempt
\* fails with "No valid response received from API", whatever had been received
\* before the failure.
C28_FailedStreamFails ==
    (spc = "failed" /\ ~Truthy(Extracted(fallback))) => ~Truthy(sret)

----------------------------------------------------------------------------
(* Claims about execute_models, checked under Spec *)

RecordsOf(k) == { i \in 1..Len(results) : results[i].model_key = k }

OnePerKey ==
    /\ Len(results) = Len(model_keys)
    /\ \A k \in BatchKeys : Cardinality(RecordsOf(k)) = 1

\* C1: when execute_models has ended, it has returned a list with exactly one
\* result per requested key, whatever the tasks did and also when the global
\* timeout elapsed.
C1_ExactlyOneResult ==
    pc = "done" => (outcome = "returned" /\ OnePerKey)

\* The global timeout has elapsed with futures outstanding.
TimedOut == pc = "shutdown" \/ outcome = "raised"

\* C2: once the global timeout has elapsed, self.results holds a record with
\* status 'timeout' for every key that was outstanding at that moment.
C2_TimeoutRecords ==
    TimedOut =>
        \A k \in pending :
            \E i \in RecordsOf(k) : results[i].status = "timeout"

\* C3: execute_models never ends by raising, and every key whose task failed or
\* was cut off by the global timeout has a record with a message.
C3_NeverRaises ==
    /\ outcome # "raised"
    /\ pc = "done" =>
          \A k \in BatchKeys :
              task[k].exc # "none" \/ k \in pending =>
                  \E i \in RecordsOf(k) : results[i].error_message # NoMessage

\* C9: a task's result has status 'success' exactly when search_with_retry
\* returned a non-empty text for it; when search_with_retry returned None or an
\* empty text, the result is an error with the empty-response message.
C9_SuccessIffText ==
    /\ \A k \in BatchKeys :
          task[k].fut.done =>
              /\ task[k].fut.result.status = "success" <=> Truthy(task[k].response)
              /\ task[k].fut.result.status = "success" =>
                    task[k].fut.result.response = task[k].response
              /\ (k \in Registry /\ ~Truthy(task[k].response)) =>
                    /\ task[k].fut.result.status = "error"
                    /\ task[k].fut.result.error_message = MsgEmptyResponse
    /\ \A i \in 1..Len(results) :
          results[i].status = "success" <=> Truthy(task[results[i].model_key].response)

\* C9 witness: the returned list holds a success and an empty-response error.
C9_Witness ==
    /\ outcome = "returned"
    /\ \E i \in 1..Len(results) : results[i].status = "success"
    /\ \E i \in 1..Len(results) :
          results[i].status = "error" /\ results[i].error_message = MsgEmptyResponse

\* C10: a task in which an exception was raised has an 'error' result carrying
\* that exception's message; every result that is not a success has an empty
\* response text and an error message.
C10_ErrorRecords ==
    /\ \A k \in BatchKeys :
          (task[k].fut.done /\ task[k].exc # "none") =>
              /\ task[k].fut.result.status = "error"
              /\ task[k].fut.result.error_message = task[k].exc
    /\ \A i \in 1..Len(results) :
          results[i].status # "success" =>
              /\ results[i].response = <<>>
              /\ results[i].error_message # NoMessage
              /\ results[i].error_message = task[results[i].model_key].exc

\* C10 witness: the returned list holds the error of an unknown key and the error
\* of an exhausted controller.
C10_Witness ==
    /\ outcome = "returned"
    /\ \E i \in 1..Len(results) :
          results[i].status = "error" /\ results[i].error_message = MsgUnknownModel
    /\ \E i \in 1..Len(results) :
          results[i].status = "error" /\ results[i].error_message = MsgEmptyResponse

\* The futures as_completed holds ready, in the order in which it will yield them.
Ready == batch \o notified

\* The future of key k completes in this step.
Completes(k) == ~task[k].fut.done /\ task'[k].fut.done

ResultKeys(rs) == [i \in 1..Len(rs) |-> rs[i].model_key]

\* as_completed starts: what it yields first.
Starts == pc = "submitted" /\ pc' = "collect"

\* While the loop runs, the ready futures are yielded first in, first out: a
\* future that completes joins them at the end, a result appended to the list is
\* that of the first of them, and no other step touches them.
FirstInFirstOut ==
    pc = "collect" =>
        IF \E k \in BatchKeys : Completes(k)
        THEN /\ \E k \in BatchKeys : Completes(k) /\ Ready' = Append(Ready, k)
             /\ results' = results
        ELSE IF results' # results
        THEN /\ Ready # <<>>
             /\ Ready' = Tail(Ready)
             /\ ResultKeys(results') = Append(ResultKeys(results), Head(Ready))
        ELSE Ready' = Ready

\* C27 as claimed: the results are appended in the order in which the tasks
\* completed: the futures done when as_completed starts are yielded in the order
\* in which they completed, and those completing later first in, first out.
C27_CompletionOrder ==
    [][(Starts => batch' = finish_order) /\ FirstInFirstOut]_vars

\* C27 as amended: the futures done when as_completed starts are yielded first,
\* each once, in some order; those completing later are yielded after them, in
\* the order in which they completed.
C27_OrderAfterStart ==
    [][/\ Starts =>
             /\ results = <<>>
             /\ notified' = <<>>
             /\ Len(batch') = Len(finish_order)
             /\ { batch'[i] : i \in 1..Len(batch') }
                   = { finish_order[i] : i \in 1..Len(finish_order) }
       /\ FirstInFirstOut]_vars

\* C27 witness: a result is in the list and two futures that completed after
\* as_completed started wait to be yielded.
C27_Witness ==
    /\ pc = "collect"
    /\ results # <<>>
    /\ Len(notified) = 2

\* The status the result of key k should have once execute_models has ended:
\* 'timeout' for a task still outstanding when the global timeout elapsed,
\* 'success' for a task whose search_with_retry returned a text, 'error' for a
\* task that failed (all six attempts, or an unknown key).
RoleStatus(k) ==
    IF k \in pending THEN "timeout"
    ELSE IF task[k].exc = "none" THEN "success"
    ELSE "error"

\* C25: when execute_models has ended on a batch in which a task was still
\* running at the global timeout while the others succeeded or failed all their
\* attempts, it has returned one result per key, 'success', 'timeout' and 'error'
\* according to what the task did, and the aggregated success rate is the share
\* of the successful keys in the batch (1/3 for one of each).
C25_MixedBatch ==
    (pc = "done" /\ pending # {} /\ Len(model_keys) > 1) =>
        /\ outcome = "returned"
        /\ OnePerKey
        /\ \A i \in 1..Len(results) : results[i].status = RoleStatus(results[i].model_key)
        /\ SuccessRate(results)
              = Div(Cardinality({ k \in BatchKeys : RoleStatus(k) = "success" }),
                    Len(model_keys))

----------------------------------------------------------------------------
(* Claims about search_with_retry, checked under RetrySpec *)

Failed(i) == ~calls[i].ok
RateLimitedCall(i) == Failed(i) /\ IsRateLimited(calls[i].err)
FatalCall(i) == Failed(i) /\ calls[i].err.type = "ValueError"
CallsOf(t) == { i \in 1..Len(calls) : calls[i].tier = t }

\* C4: no request goes to the backup target before at least one request has gone
\* to the primary target, and the primary tier is never skipped: the first
\* request of every run is a primary one and no run ends without one.
C4_TierOrdering ==
    /\ \A i \in 1..Len(calls) :
          calls[i].target = "backup" =>
              \E j \in 1..(i - 1) : calls[j].target = "primary"
    /\ calls # <<>> => calls[1].target = "primary"
    /\ ret.kind # "running" => \E j \in 1..Len(calls) : calls[j].target = "primary"

\* C4 witness: a backup request has been made.
C4_Witness ==
    \E i \in 1..Len(calls) : calls[i].target = "backup" /\ calls[i].tier = "backup"

\* The rate-limit fast path: the first primary attempt failed with a rate-limit
\* or overload error.
FastPath == calls # <<>> /\ RateLimitedCall(1)

\* C5: outside the rate-limit fast path a tier is left by failure only after
\* exactly 3 attempts: a failed attempt 1 or 2, Fatal and RateLimited included, is
\* followed by the next attempt of the same tier; backup attempts come after
\* exactly 3 primary ones; a fully failing run is 3 primary then 3 backup attempts.
C5_AttemptBudget ==
    ~FastPath =>
        /\ \A i \in 1..Len(calls) :
              Failed(i) /\ calls[i].n < 3 =>
                  IF i < Len(calls)
                  THEN calls[i + 1].tier = calls[i].tier /\ calls[i + 1].n = calls[i].n + 1
                  ELSE tier = calls[i].tier /\ attempt = calls[i].n
        /\ \A i \in CallsOf("backup") :
              { j \in CallsOf("primary") : j < i } = {1, 2, 3}
        /\ (tier = "returned" /\ \A i \in 1..Len(calls) : Failed(i)) =>
              /\ Len(calls) = 6
              /\ \A i \in 1..3 : calls[i].tier = "primary" /\ calls[i].n = i
              /\ \A i \in 4..6 : calls[i].tier = "backup" /\ calls[i].n = i - 3

\* C5 witness: a fully failing run, not on the fast path, with a Fatal failure and
\* a RateLimited failure on primary attempt 2.
C5_Witness ==
    /\ tier = "returned"
    /\ Len(calls) = 6
    /\ ~FastPath
    /\ FatalCall(1)
    /\ RateLimitedCall(2)
    /\ \A i \in 1..6 : Failed(i)

\* C6: when the first primary attempt fails with a rate-limit/overload error, the
\* next attempt is backup attempt 1.
C6_FastPathToBackup ==
    (FastPath /\ Len(calls) >= 2) => calls[2].tier = "backup" /\ calls[2].n = 1

\* C7: an attempt that yields a non-empty text is the last one: the controller
\* has returned that text with that request's completion, and no sleep follows it.
C7_SuccessReturns ==
    \A i \in 1..Len(calls) :
        calls[i].ok =>
            /\ i = Len(calls)
            /\ tier = "returned"
            /\ Truthy(calls[i].msg)
            /\ ret = [kind |-> "return", msg |-> calls[i].msg, completion |-> i]
            /\ \A k \in 1..Len(sleeps) : sleeps[k].after < i

\* C7 witness: a success on backup attempt 2, after sleeps.
C7_Witness ==
    /\ Len(calls) = 5
    /\ calls[5].ok
    /\ calls[5].tier = "backup"
    /\ Len(sleeps) = 3

\* C8: when the 3 primary and the 3 backup attempts have all failed, the
\* controller has returned (None, None) and has not raised.
C8_ExhaustedReturnsNone ==
    (Len(calls) = 6 /\ \A i \in 1..6 : Failed(i)) =>
        /\ tier = "returned"
        /\ ret.kind = "return"
        /\ ret.msg = None
        /\ ret.completion = 0

\* C8 witness: six failed attempts raising at least three kinds of exception.
C8_Witness ==
    /\ Len(calls) = 6
    /\ \A i \in 1..6 : Failed(i)
    /\ Cardinality({ calls[i].err.type : i \in 1..6 }) >= 3

\* C11: every success result collected by execute_models has a response text
\* without "<think>" and without "</think>".
C11_NoMarkupInSuccess ==
    \A i \in 1..Len(results) :
        results[i].status = "success" => ~HasMarkup(results[i].response)

\* The tasks inside _execute_single_model.
InFlight == { k \in BatchKeys : task[k].pc \in {"lookup", "retry"} }

\* C16: at every moment at most max_workers tasks are inside
\* _execute_single_model, whatever the batch size.
C16_BoundedInFlight == Cardinality(InFlight) <= MaxWorkers

\* C16 witness: a batch larger than the pool, with every worker busy and a task
\* still queued.
C16_Witness ==
    /\ Len(model_keys) > MaxWorkers
    /\ Cardinality(InFlight) = MaxWorkers
    /\ \E k \in BatchKeys : task[k].pc = "queued"

\* C18: once the global timeout has elapsed, execute_models can hand control back
\* to its caller at once, whether or not the outstanding tasks have finished.
C18_NoWaitOnTimeout == pc = "shutdown" => ENABLED Propagate

\* C20: a key unknown to the registry gets the unknown-model error record and no
\* other key does; the batch goes on: when execute_models returns, every key of
\* the batch has its own record and the records of the registered keys come from
\* their own run of search_with_retry.
C20_UnknownKeyOnly ==
    /\ \A k \in BatchKeys :
          task[k].fut.done =>
              /\ task[k].fut.result.model_key = k
              /\ (task[k].fut.result.error_message = MsgUnknownModel) <=> (k \notin Registry)
              /\ k \notin Registry => task[k].fut.result.status = "error"
    /\ (outcome = "returned" /\ ~(BatchKeys \subseteq Registry)) =>
          /\ OnePerKey
          /\ \A i \in 1..Len(results) :
                results[i].model_key \in Registry =>
                    results[i] = SingleModelResult(results[i].model_key,
                        [kind |-> "return",
                         msg |-> task[results[i].model_key].response,
                         completion |-> 0])

\* C20 witness: a batch with the unknown key and a registered key has returned,
\* the registered key with a success.
C20_Witness ==
    /\ outcome = "returned"
    /\ \E i \in 1..Len(results) : results[i].error_message = MsgUnknownModel
    /\ \E i \in 1..Len(results) :
          results[i].model_key \in Registry /\ results[i].status = "success"

\* The backoff sleep made after the failure of attempt n of a tier.
SleepAfter(n) == { sleeps[k].secs : k \in { j \in 1..Len(sleeps) : calls[sleeps[j].after].n = n } }

\* C19 as claimed: the sleep before attempt 2 is 8 seconds, before attempt 3 it is
\* 16 seconds.
C19_Backoff8And16 == SleepAfter(1) \subseteq {8} /\ SleepAfter(2) \subseteq {16}

\* C19 as amended: the sleep before attempt 2 is 4 seconds, before attempt 3 it is
\* 8 seconds, in both tiers; no other sleep is made.
C19_Backoff4And8 ==
    /\ SleepAfter(1) \subseteq {4}
    /\ SleepAfter(2) \subseteq {8}
    /\ \A k \in 1..Len(sleeps) : calls[sleeps[k].after].n \in {1, 2}

\* C19 witness: a run that slept before attempts 2 and 3 of both tiers.
C19_Witness ==
    /\ Len(sleeps) = 4
    /\ SleepAfter(1) = {4}
    /\ SleepAfter(2) = {8}
    /\ { calls[sleeps[k].after].tier : k \in 1..4 } = {"primary", "backup"}

\* The call that follows call i in the order of the loops: the next attempt of the
\* same tier, or the first attempt of the backup tier after the third primary one.
Follows(i, j) ==
    IF calls[i].n < 3
    THEN calls[j].tier = calls[i].tier /\ calls[j].n = calls[i].n + 1
    ELSE calls[i].tier = "primary" /\ calls[j].tier = "backup" /\ calls[j].n = 1

\* C29: in non-streaming mode a response without a completion choice is a failed
\* attempt with the message "No choices returned from API.": it does not make
\* search_with_retry return, and it uses up one attempt of its tier, the next
\* request being the next attempt in the order of the loops, or None being
\* returned when it was the third backup attempt.
C29_NoChoicesFails ==
    \A i \in 1..Len(calls) :
        calls[i].response = "nochoices" =>
            /\ ~streaming
            /\ ~calls[i].ok
            /\ calls[i].err = ErrNoChoices
            /\ i < Len(calls) => Follows(i, i + 1)
            /\ i = Len(calls) =>
                  IF calls[i].tier = "backup" /\ calls[i].n = 3
                  THEN tier = "returned" /\ ret = ReturnNone
                  ELSE /\ ret = Running
                       /\ tier = (IF calls[i].n < 3 THEN calls[i].tier ELSE "backup")
                       /\ attempt = (IF calls[i].n < 3 THEN calls[i].n ELSE 0)

\* C29 witness: a response without choices on the second primary attempt has been
\* followed by the third primary attempt, and one on the third backup attempt by
\* the return of None.
C29_Witness ==
    /\ ~streaming
    /\ Len(calls) = 6
    /\ calls[2].response = "nochoices"
    /\ calls[3].tier = "primary"
    /\ calls[6].response = "nochoices"
    /\ ret = ReturnNone

\* The calls after which search_with_retry has slept.
SleptAfter == { sleeps[k].after : k \in 1..Len(sleeps) }

\* C30: search_with_retry sleeps after a call exactly when the call failed and was
\* the first or second attempt of its tier, once per such call, so the next
\* request is the next attempt of the same tier; a run in which all six attempts
\* fail has slept 4 times.
C30_SleepsBetweenAttempts ==
    /\ SleptAfter = { i \in 1..Len(calls) : ~calls[i].ok /\ calls[i].n < 3 }
    /\ Cardinality(SleptAfter) = Len(sleeps)
    /\ \A i \in SleptAfter :
          i < Len(calls) =>
              calls[i + 1].tier = calls[i].tier /\ calls[i + 1].n = calls[i].n + 1
    /\ ret = ReturnNone => Len(calls) = 6 /\ Len(sleeps) = 4

\* C30 witness: a run whose six attempts failed has returned None after sleeping
\* behind the calls 1, 2, 4 and 5.
C30_Witness ==
    /\ ret = ReturnNone
    /\ \A i \in 1..Len(calls) : ~calls[i].ok
    /\ SleptAfter = {1, 2, 4, 5}

----------------------------------------------------------------------------
(* Claims about ReportAggregator, checked under AggSpec *)

\* The positions of the successful results of the list.
SuccessAt == { i \in 1..Len(agg_results) : agg_results[i].status = "success" }
FailureAt == (1..Len(agg_results)) \ SuccessAt

SuccessTimes == { agg_results[i].execution_time : i \in SuccessAt }

RECURSIVE TimeOver(_)
TimeOver(S) ==
    IF S = {} THEN 0
    ELSE LET i == CHOOSE x \in S : TRUE
         IN  agg_results[i].execution_time + TimeOver(S \ {i})

\* C21: the success rate of a report is successes / results, its min, average
\* and max times are those of the successful results alone; without a successful
\* result (the empty list included) all four are zero.
C21_SummaryStatistics ==
    \A k \in 1..Len(reports) :
        LET es == reports[k].execution_summary
        IN  IF SuccessAt = {}
            THEN /\ es.success_rate = Zero
                 /\ es.average_time = Zero
                 /\ es.min_time = 0
                 /\ es.max_time = 0
            ELSE /\ es.success_rate.den > 0
                 /\ es.success_rate.num * Len(agg_results)
                       = es.success_rate.den * Cardinality(SuccessAt)
                 /\ es.average_time.den > 0
                 /\ es.average_time.num * Cardinality(SuccessAt)
                       = es.average_time.den * TimeOver(SuccessAt)
                 /\ es.min_time \in SuccessTimes
                 /\ es.max_time \in SuccessTimes
                 /\ \A t \in SuccessTimes : es.min_time <= t /\ t <= es.max_time

\* C21 witness: the report of a failure that took 1 s and a success that took 2 s
\* has success rate 1/2 and min time 2.
C21_Witness ==
    /\ reports # <<>>
    /\ Len(agg_results) = 2
    /\ agg_results[1].status = "error" /\ agg_results[1].execution_time = 1
    /\ reports[1].execution_summary.success_rate = [num |-> 1, den |-> 2]
    /\ reports[1].execution_summary.min_time = 2

\* C22: the response a report stores for a successful result holds neither
\* marker, and response_length is the length of that response.
C22_NoMarkupInReport ==
    \A k \in 1..Len(reports) :
        \A i \in 1..Len(reports[k].model_responses) :
            LET info == reports[k].model_responses[i]
            IN  info.status = "success" =>
                    /\ ~HasMarkup(info.response)
                    /\ info.response_length = Len(info.response)

\* The sanitized length a report holds for key.
LengthOf(report, key) ==
    LET i == CHOOSE j \in 1..Len(report.model_responses) :
                 report.model_responses[j].model_key = key
    IN  Len(report.model_responses[i].response)

KeysOf(entries) == { entries[i].model_key : i \in 1..Len(entries) }

\* entries names each successful result of the list once, longest first.
Ranking(report, entries) ==
    /\ KeysOf(entries) = { agg_results[i].model_key : i \in SuccessAt }
    /\ Len(entries) = Cardinality(SuccessAt)
    /\ \A i \in 1..Len(entries) : \A j \in 1..Len(entries) :
          i < j => LengthOf(report, entries[i].model_key)
                      >= LengthOf(report, entries[j].model_key)

\* C23: the entries of the summary text and the ranked entries of the structured
\* report are the successful responses, each once, in order of non-increasing
\* sanitized length; no failed response is among them.
C23_RankedByLength ==
    \A k \in 1..Len(reports) :
        /\ Ranking(reports[k], reports[k].summary_text.entries)
        /\ Ranking(reports[k], rendered[k].ranked)
        /\ \A i \in 1..Len(rendered[k].ranked) : rendered[k].ranked[i].status = "success"

\* C23 witness: of two successful results the second, which is longer after
\* sanitizing, is ranked first in both texts.
C23_Witness ==
    /\ reports # <<>>
    /\ SuccessAt = {1, 2}
    /\ Len(StripThink(agg_results[1].response)) < Len(StripThink(agg_results[2].response))
    /\ reports[1].summary_text.entries[1].model_key = agg_results[2].model_key
    /\ rendered[1].ranked[1].model_key = agg_results[2].model_key

Timeless(report) == [report EXCEPT !.timestamp.time = 0]

C26_FailuresListed ==
    \A k \in 1..Len(reports) :
        /\ (SuccessAt # {} /\ FailureAt # {}) =>
              /\ reports[k].summary_text.kind = "summary"
              /\ KeysOf(reports[k].summary_text.entries)
                    = { agg_results[i].model_key : i \in SuccessAt }
              /\ KeysOf(rendered[k].ranked) = { agg_results[i].model_key : i \in SuccessAt }
              /\ Len(rendered[k].failed) = Cardinality(FailureAt)
              /\ \A i \in FailureAt :
                    \E j \in 1..Len(rendered[k].failed) :
                        /\ rendered[k].failed[j].model_key = agg_results[i].model_key
                        /\ rendered[k].failed[j].message = agg_results[i].error_message
              /\ reports[k].failed_models = Cardinality(FailureAt)
        /\ SuccessAt = {} =>
              /\ reports[k].summary_text
                    = [kind |-> "failure notice", query |-> "q", entries |-> <<>>]
              /\ rendered[k].ranked = <<>>
              /\ rendered[k].no_answer_notice

\* C26 witness: a report on a success and a failure lists the failure with its
\* message and ranks the success.
C26_Witness ==
    /\ reports # <<>>
    /\ SuccessAt = {1}
    /\ FailureAt = {2}
    /\ rendered[1].failed = <<[model_key |-> 2, message |-> MsgEmptyResponse]>>
    /\ Len(rendered[1].ranked) = 1

----------------------------------------------------------------------------
(* Claims about the handling of unknown keys, checked under Spec *)

\* The task of key k has sent a network request: it has run an iteration of a
\* loop of search_with_retry.
Requested(k) ==
    \/ task[k].pc = "retry" /\ <<task[k].tier, task[k].attempt>> # <<"primary", 0>>
    \/ task[k].pc = "done" /\ task[k].exc # MsgUnknownModel

\* C31 as claimed: a batch holding a key unknown to the registry fails when it is
\* submitted: no task of that batch ever sends a network request.
C31_FailsAtSubmission ==
    ~(BatchKeys \subseteq Registry) => \A k \in BatchKeys : ~Requested(k)

\* C31 as amended: submission accepts a key unknown to the registry; the key is
\* looked up inside its own task, which sends no request and ends with an
\* 'error' result, not with an exception; execute_models raises only when the
\* global timeout has elapsed with a task outstanding.
C31_FailsInsideTask ==
    /\ \A k \in BatchKeys \ Registry :
          /\ pc # "start" => task[k].pc \in {"queued", "lookup", "done"}
          /\ ~Requested(k)
          /\ task[k].fut.done =>
                /\ task[k].fut.raised = "none"
                /\ task[k].fut.result.status = "error"
    /\ outcome = "raised" => pending # {}

\* C31 witness: the unknown key has got its error result after a registered key
\* of the same batch has sent a request, and the batch goes on.
C31_Witness ==
    /\ \E k \in BatchKeys \ Registry :
          task[k].fut.done /\ task[k].fut.result.error_message = MsgUnknownModel
    /\ \E k \in BatchKeys \cap Registry : Requested(k) /\ task[k].pc = "retry"
    /\ outcome = "running"

----------------------------------------------------------------------------
(* Claims about concurrent calls of search_with_retry, checked under CallSpec *)

\* C32: the request a thread has sent went to the target of the tier whose
\* iteration sent it, whatever the other threads did in between.
C32_RequestToOwnTier ==
    \A w \in Callers :
        call[w].at = "sent" => call[w].target = SetupApiConfig(call[w].tier = "primary")

\* C33: the stream state of a call is what the chunks of that call alone make of
\* the empty state: neither the chunks of the other thread nor those of an
\* earlier iteration of the same thread are in it.
C33_StreamStateOwned ==
    \A w \in Callers :
        /\ call[w].st = ProcessStream(StreamStart, call[w].seen, suppress_thinking)
        /\ call[w].at # "stream" => call[w].seen = <<>>

\* C33 witness: both threads are reading a stream, in different flag states, and
\* one of them is in a later iteration, after a stream it had read before.
C33_Witness ==
    /\ \A w \in Callers : call[w].at = "stream" /\ call[w].seen # <<>>
    /\ call[1].st.in_thinking /\ ~call[2].st.in_thinking
    /\ call[1].st.msg # call[2].st.msg
    /\ call[2].attempt > 0

----------------------------------------------------------------------------
(* Claims about the two locks, checked under ConsoleSpec *)

\* The threads that are appending to self.results.
Appending == { t \in ConsoleThreads : thr[t].at = "append" }

\* C35: a thread that is appending to self.results holds self.lock, so at most
\* one thread is appending at a time; the lock is held for nothing else; and
\* when the batch ends without a timeout the result of every worker has been
\* appended.
C35_AppendsUnderLock ==
    /\ \A t \in Appending : lock = t
    /\ Cardinality(Appending) <= 1
    /\ lock # Free => lock \in Appending
    /\ thr[Dispatcher].at \in {"summary", "returned"} => collected = ConsoleWorkers

\* C35 witness: an append is going on while another worker is still running.
C35_Witness ==
    /\ Appending # {}
    /\ WorkersRunning

\* C36: the thread that holds the output lock is inside one locked print, which
\* it can finish and leave without waiting for anything: it is not in a network
\* call or a sleep, and it does not hold the results lock.
C36_OutputLockOneLine ==
    \A t \in ConsoleThreads :
        output_lock = t =>
            /\ thr[t].at \in LockedPrints
            /\ thr[t].inside
            /\ thr[t].at \notin {"create", "sleep", "append"}
            /\ lock # t
            /\ ENABLED EndPrint(t)

\* C36 witness: one worker sleeps between two attempts while another one holds
\* the output lock for its status line.
C36_Witness ==
    \E t, u \in ConsoleWorkers :
        /\ thr[t].at = "sleep"
        /\ output_lock = u
        /\ thr[u].at = "status"

----------------------------------------------------------------------------
(* Termination of search_with_retry, checked under RetryLiveSpec *)

\* The requests sent by iteration n of loop t.
RequestsOf(t, n) == { i \in 1..Len(calls) : calls[i].tier = t /\ calls[i].n = n }

\* No more than 6 requests, no more than 3 per tier, one per iteration.
RequestBudget ==
    /\ Len(calls) <= PrimaryRange + BackupRange
    /\ Cardinality(CallsOf("primary")) <= PrimaryRange
    /\ Cardinality(CallsOf("backup")) <= BackupRange
    /\ \A t \in {"primary", "backup"} : \A n \in 1..3 : Cardinality(RequestsOf(t, n)) <= 1
    /\ \A i \in 1..Len(calls) : calls[i].n \in 1..3

\* C37: search_with_retry returns in the end, and at no moment has it sent more
\* than 6 requests, more than 3 to one tier, or two in one iteration.
C37_TerminatesWithinBudget == []RequestBudget /\ <>(tier = "returned")

\* C37 witness: search_with_retry has ended after 6 requests, one per iteration
\* of each tier.
C37_Witness ==
    /\ tier = "returned"
    /\ \A t \in {"primary", "backup"} : \A n \in 1..3 : Cardinality(RequestsOf(t, n)) = 1

----------------------------------------------------------------------------
(* Progress of a batch larger than the pool, checked under LiveSpec *)

\* execute_models has returned a list with one result per key, every task
\* having run to its end.
ReturnedAll ==
    /\ pc = "done"
    /\ outcome = "returned"
    /\ OnePerKey
    /\ \A k \in BatchKeys : task[k].pc = "done" /\ task[k].fut.done

\* C38: unless the global timeout elapses first, every task of a batch larger
\* than the pool is started and completed in the end, and execute_models returns
\* with one result per key.
C38_QueuedTasksComplete == <>(pc = "shutdown" \/ ReturnedAll)

\* C38 witness: execute_models has returned all the results of a batch larger
\* than the pool.
C38_Witness == ReturnedAll /\ Len(model_keys) > MaxWorkers

----------------------------------------------------------------------------
(* Claims about successive execute_models calls, checked under SessionSpec *)

\* The keys of the results in a list.
ListKeys(l) == { l[i].model_key : i \in 1..Len(l) }

\* C39: the list a call has returned holds what it held when it was returned,
\* whatever calls were made since, and only results of that call for keys of that
\* call; no later call has been handed the same list; and the list of the
\* running call holds only results of that call.
C39_FreshListPerCall ==
    /\ \A i \in 1..Len(returned) :
          /\ heap[returned[i].ref] = returned[i].value
          /\ ListKeys(heap[returned[i].ref]) = returned[i].keys
          /\ \A j \in 1..Len(heap[returned[i].ref]) :
                heap[returned[i].ref][j].call = returned[i].ref - 1
          /\ \A j \in 1..Len(returned) : returned[j].ref = returned[i].ref => j = i
    /\ sess.pc = "collecting" =>
          /\ ListKeys(heap[self_results]) = sess.keys \ sess.left
          /\ \A j \in 1..Len(heap[self_results]) :
                heap[self_results][j].call = self_results - 1

\* C39 witness: a second call on the executor has collected a result for a key
\* that the first call, which has returned, did not have.
C39_Witness ==
    /\ Len(returned) = 1
    /\ sess.pc = "collecting"
    /\ \E k \in sess.keys \ sess.left : k \notin returned[1].keys
    /\ returned[1].value # <<>>

====
